---- MODULE Spec2Model ----
(***************************************************************************)
(* Model of the ape-punks-avatar repository: the trait selection of the    *)
(* page, the layered preview, the save button, and the server handlers     *)
(* that fetch, order and composite the selected layers.                    *)
(*                                                                         *)
(*   Spec        the page: handleTraitSelect, the preview's load effect,   *)
(*               handleSave of both SaveButton versions                    *)
(*   SpecServer  one POST request through each server handler              *)
(*   SpecFetch   one call of fetchImageWithRetry                           *)
(*   SpecComposite  one call of compositeImages                            *)
(*   SpecResize     one call of resizeFrame                                *)
(*   SpecQuantize   one output frame through quantizeTo256Colors and       *)
(*                  rgbaToBitmapImage                                      *)
(***************************************************************************)
EXTENDS Integers, Sequences, FiniteSets, TLC

VARIABLES
    \* ---- the page (src/app/page.tsx, CombinedPreview.tsx, SaveButton.tsx)
    traits,         \* AvatarTraits: category -> Trait or Null
    imageRefs,      \* CombinedPreview imageRefs: the Map's keys, insertion order
    savePc,         \* "idle" | "noTraits" | "awaiting" | "finished": a handleSave
    saveSender,     \* which handleSave issued the request
    sentTraitUrls,  \* body.traitUrls of the request in flight
    saveTraits,     \* the traits the running handleSave closed over
    download,       \* the file the running handleSave made the browser save
    clicks,         \* history: the a.click() calls of the running handleSave
    alerts,         \* history: the alert() calls of the running handleSave
    \* ---- the image loads of CombinedPreview
    observeLoads,   \* whether the pending loads of the preview are followed
    gifSyncKey,     \* gifSyncKey: incremented at every change of traits
    loadRuns,       \* the Promise.all of each load effect run still pending
    loadedImages,   \* loadedImages, with the run that produced the elements
    isProcessing,   \* isProcessing of the page (onProcessingStateChange)
    \* ---- the canvas-based preview, src/unnamed/part_004
    gifDataRef,     \* gifDataRef.current: the Map's keys
    staticImagesRef,\* staticImagesRef.current: the Map's keys
    canvasRuns,     \* the loadImages() calls still awaiting an image
    canvasRun,      \* history: how many times the load effect has run
    canvasLoaded,   \* history: the categories the latest run has loaded
    \* ---- one POST /api/combine-gifs request
    variant,        \* which handler serves it
    body,           \* the request body's traitUrls
    pc,             \* "received" | "firstPass" | "load" | "finish" | "done"
    urls,           \* sortedUrls / absoluteUrls
    k,              \* position of the running for..of loop in urls
    maxFrames,
    hasGifs,
    assets,
    drawn,          \* URLs drawn on the lenient handler's canvas, in order
    combinedFrames,
    frameUses,      \* every asset.frames[frameNum] the combine loop evaluated
    response,
    loadLog,        \* history: outcome of every load the handler attempted
    retried,        \* history: some fetch returned only after a failed attempt
    canvas,         \* canvasWidth, canvasHeight
    encoder,        \* history: what the GIF encoder was created with and given
    layerPixels,    \* the pixel data of every layer frame after the combine loop,
                    \* and history: the pixel data each use of a frame read
    \* ---- one call of fetchImageWithRetry
    fUrl,
    fPc,            \* "attempt" | "waiting" | "returned" | "thrown"
    fI,             \* the loop variable i
    fLog,           \* history: outcome of every fetch attempt made
    fWaits,         \* history: every setTimeout duration awaited
    \* ---- one call of compositeImages
    cPc,            \* "idle" | "called" | "returned"
    cBase,          \* base: the pixels, each <<r, g, b, a>>
    cOverlay,       \* overlay
    cResult,        \* the Uint8Array returned
    cDivByZero,     \* history: some division had the divisor 0
    \* ---- one call of resizeFrame
    rPc,            \* "idle" | "called" | "returned"
    rSrc,           \* srcWidth, srcHeight
    rDest,          \* destWidth, destHeight
    rPixels,        \* pixels
    rReads,         \* history: the source pixel read for each destination pixel
    rResult,        \* the Uint8Array returned
    \* ---- one output frame of the strict handler on its way to the encoder
    qPc,            \* "idle" | "composited" | "encoded"
    qPixels,        \* basePixels
    qQuantized,     \* finalPixels
    qBitmap,        \* the buffer of the BitmapImage given to the GifFrame
    \* ---- one call of extractGifFrames on a GIF of one frame
    ePc,            \* "idle" | "called" | "returned"
    eVariant,       \* "part_009" | "GifGenerator": whose extractGifFrames
    eReader,        \* which of decodeAndBlitFrameRGBA / BGRA the reader has
    eBlit,          \* the bytes the reader's decodeAndBlitFrame* writes
    ePixels         \* frames[0].pixels of the result, as bytes

canvasVars == <<gifDataRef, staticImagesRef, canvasRuns, canvasRun, canvasLoaded>>

previewVars == <<observeLoads, gifSyncKey, loadRuns, loadedImages, isProcessing,
                 canvasVars>>

uiVars == <<traits, imageRefs, savePc, saveSender, sentTraitUrls, saveTraits, download,
            clicks, alerts,
            previewVars>>

serverVars == <<variant, body, pc, urls, k, maxFrames, hasGifs, assets, drawn,
                combinedFrames, frameUses, response, loadLog, retried, canvas, encoder,
                layerPixels>>

fetchVars == <<fUrl, fPc, fI, fLog, fWaits>>

compositeVars == <<cPc, cBase, cOverlay, cResult, cDivByZero>>

resizeVars == <<rPc, rSrc, rDest, rPixels, rReads, rResult>>

quantizeVars == <<qPc, qPixels, qQuantized, qBitmap>>

extractVars == <<ePc, eVariant, eReader, eBlit, ePixels>>

pixelVars == <<compositeVars, resizeVars, quantizeVars, extractVars>>

vars == <<uiVars, serverVars, fetchVars, pixelVars>>

-----------------------------------------------------------------------------
(* Generic helpers *)

Range(s) == {s[i] : i \in 1..Len(s)}

\* Array.prototype.indexOf: 0-based, -1 when absent
RECURSIVE IndexOfFrom(_, _, _)
IndexOfFrom(s, x, i) ==
    IF i > Len(s) THEN -1
    ELSE IF s[i] = x THEN i - 1
    ELSE IndexOfFrom(s, x, i + 1)

IndexOf(s, x) == IndexOfFrom(s, x, 1)

\* The elements of s with key[x] = k, k = lo..hi in turn, each group in the
\* order of s: what a stable sort by key returns.
RECURSIVE StableSortFrom(_, _, _, _)
StableSortFrom(s, key, lo, hi) ==
    IF lo > hi THEN <<>>
    ELSE SelectSeq(s, LAMBDA x : key[x] = lo) \o StableSortFrom(s, key, lo + 1, hi)

-----------------------------------------------------------------------------
(* URLs.  A URL is kept as its parts, so that includes('/fur/'),            *)
(* startsWith('/') and endsWith('.gif') are computed and not assumed.       *)

Url(scheme, dirs, file, ext) ==
    [scheme |-> scheme, dirs |-> dirs, file |-> file, ext |-> ext]

\* the transparent placeholder every 'none' option points to
TransparentGif == Url("", <<"assets">>, "transparent", "gif")

Asset(dir, n) == Url("", <<"assets", dir>>, n, "gif")

-----------------------------------------------------------------------------
(* The page: src/app/page.tsx *)

Null == [name |-> "null", value |-> "null", image |-> Url("", <<>>, "", "")]

Trait(name, value, image) == [name |-> name, value |-> value, image |-> image]

\* keys of initialTraits, in the order the object literal lists them: the
\* order Object.values(traits) and Object.entries(traits) enumerate
CategoryKeys ==
    <<"background", "eyes", "face", "fur", "head", "mask", "minion", "mouth">>

Categories == Range(CategoryKeys)

None == Trait("None", "none", TransparentGif)

traitOptions ==
    [c \in Categories |->
        CASE c = "background" ->
                <<None, Trait("Blue Sky", "blue-sky", Asset("background", "1")),
                        Trait("Space", "space", Asset("background", "2"))>>
          [] c = "eyes" ->
                <<None, Trait("Normal", "normal", Asset("eyes", "14")),
                        Trait("Laser", "laser", Asset("eyes", "15"))>>
          [] c = "face" ->
                <<None, Trait("Round", "round", Asset("face", "3"))>>
          [] c = "fur" ->
                <<None, Trait("Brown", "brown", Asset("fur", "4")),
                        Trait("White", "white", Asset("fur", "5"))>>
          [] c = "head" ->
                <<None, Trait("Cap", "cap", Asset("head", "6")),
                        Trait("Crown", "crown", Asset("head", "7"))>>
          [] c = "mask" ->
                <<None, Trait("Surgical", "surgical", Asset("mask", "8")),
                        Trait("Gas", "gas", Asset("mask", "9"))>>
          [] c = "minion" ->
                <<None, Trait("Frog", "frog", Asset("minion", "10")),
                        Trait("Robot", "robot", Asset("minion", "11"))>>
          [] c = "mouth" ->
                <<None, Trait("Smile", "smile", Asset("mouth", "12")),
                        Trait("Open", "open", Asset("mouth", "13"))>>]

initialTraits == [c \in Categories |-> Null]

\* Object.values(traits).some(trait => trait !== null)
hasTraits(t) == \E c \in Categories : t[c] # Null

\* the categories of seq `order` that hold a trait in t, in that order
Selected(order, t) == SelectSeq(order, LAMBDA c : t[c] # Null)

-----------------------------------------------------------------------------
(* The preview: src/app/components/CombinedPreview.tsx *)

\* traitOrder of the load effect, and the same list inside getZIndex
traitOrder == <<"background", "fur", "mouth", "head", "mask", "eyes", "minion">>

getZIndex(traitType) == IndexOf(traitOrder, traitType)

\* The load effect: nothing when no trait is selected (the Map keeps its
\* entries); otherwise the Map is cleared and gets one entry per selected
\* category of traitOrder, in that order.
LoadEffect(refs, t) ==
    IF ~hasTraits(t) THEN refs ELSE Selected(traitOrder, t)

\* What the render stacks, back to front: the Map's entries whose trait is
\* still selected, absolutely positioned with zIndex getZIndex(type), so drawn
\* by ascending zIndex and, for equal zIndex, in document order.
PreviewStack ==
    IF \A c \in Categories : traits[c] = Null THEN <<>>
    ELSE LET shown == SelectSeq(imageRefs, LAMBDA c : traits[c] # Null)
             z == [c \in Range(shown) |-> getZIndex(c)]
         IN StableSortFrom(shown, z, -1, Len(traitOrder) - 1)

-----------------------------------------------------------------------------
(* The save button: src/app/components/SaveButton.tsx and its earlier      *)
(* version src/unnamed/part_006                                            *)

TRAIT_ORDER ==
    <<"background", "fur", "face", "eyes", "mouth", "head", "mask", "minion">>

\* Seq map
MapImages(cats, t) == [i \in 1..Len(cats) |-> t[cats[i]].image]

\* SaveButton.tsx: TRAIT_ORDER.map(type => traits[type]).filter(non-null).map(image)
SaveTraitUrls(t) == MapImages(Selected(TRAIT_ORDER, t), t)

\* part_006, server fallback: Object.values(traits).filter(non-null).map(image)
FallbackTraitUrls(t) == MapImages(Selected(CategoryKeys, t), t)

-----------------------------------------------------------------------------
(* Actions of the page *)

\* handleTraitSelect(traitType, trait), followed by the re-render and the
\* preview's load effect that the new traits object triggers
\* a bound on the changes of traits during which the loads are followed
MaxChanges == 3

\* loadedImages: the types loaded, and the run whose <img> elements they are
NoImages == [gen |-> 0, types |-> <<>>]

\* one run of the load effect: the traits it closed over, as the types it
\* loads in traitOrder, and the change of traits that started it (the effect
\* runs again for the new gifSyncKey with the same traits: the same record)
LoadRun(gen, t) == [gen |-> gen, types |-> Selected(traitOrder, t)]

\* the effect "check if all selected traits have loaded images"
CheckEffect(t, loaded, processing) ==
    IF ~hasTraits(t) THEN FALSE
    ELSE IF \A c \in Categories : t[c] # Null => c \in Range(loaded.types)
         THEN FALSE
         ELSE processing

\* a variant of handleTraitSelect that stores the 'None' option like any
\* other trait
handleTraitSelectKeepsNone(traitType, trait) ==
    /\ savePc = "idle"
    /\ traits' = [traits EXCEPT ![traitType] = trait]
    /\ imageRefs' = LoadEffect(imageRefs, traits')
    /\ UNCHANGED <<gifSyncKey, loadedImages, isProcessing, loadRuns>>
    /\ UNCHANGED <<savePc, saveSender, sentTraitUrls, saveTraits, download, clicks, alerts,
                   observeLoads, canvasVars, serverVars, fetchVars, pixelVars>>

\* setTraits, and the effects of the render that follows: the reset effect,
\* the check effect and the load effect
handleTraitSelect(traitType, trait) ==
    /\ savePc = "idle"
    /\ traits' = [traits EXCEPT ![traitType] =
                        IF trait.value = "none" THEN Null ELSE trait]
    /\ imageRefs' = LoadEffect(imageRefs, traits')
    /\ IF observeLoads
       THEN /\ gifSyncKey < MaxChanges
            /\ gifSyncKey' = gifSyncKey + 1
            /\ loadedImages' = NoImages
            /\ isProcessing' = (hasTraits(traits') \/ CheckEffect(traits', NoImages, isProcessing))
            /\ loadRuns' = IF hasTraits(traits')
                           THEN loadRuns \cup {LoadRun(gifSyncKey', traits')}
                           ELSE loadRuns
       ELSE UNCHANGED <<gifSyncKey, loadedImages, isProcessing, loadRuns>>
    /\ UNCHANGED <<savePc, saveSender, sentTraitUrls, saveTraits, download, clicks, alerts,
                   observeLoads, canvasVars, serverVars, fetchVars, pixelVars>>

\* Promise.all of a load run settles: .then(setLoadedImages) and the check
\* effect, or .catch(setError, onProcessingStateChange(false)); Promise.all
\* of no promise at all is fulfilled
loadSettled(gen, ok) ==
    /\ \E run \in loadRuns : run.gen = gen /\ (ok \/ run.types # <<>>)
    /\ LET run == CHOOSE r \in loadRuns : r.gen = gen
       IN /\ loadRuns' = loadRuns \ {run}
          /\ IF ok
             THEN /\ loadedImages' = run
                  /\ isProcessing' = CheckEffect(traits, run, isProcessing)
             ELSE /\ isProcessing' = FALSE
                  /\ UNCHANGED loadedImages
    /\ UNCHANGED <<traits, imageRefs, savePc, saveSender, sentTraitUrls, saveTraits,
                   download, clicks, alerts, observeLoads, gifSyncKey, canvasVars, serverVars,
                   fetchVars, pixelVars>>

-----------------------------------------------------------------------------
(* The canvas-based preview: src/unnamed/part_004 *)

\* trait.image.endsWith('.gif')
EndsWithGif(url) == url.ext = "gif"

\* one call of loadImages(): the traits the effect closed over, the
\* categories of traitOrder its for..of loop has still to load (the first is
\* the one awaited), and the run of the effect that made the call
CanvasRun(gen, t) == [gen |-> gen, sel |-> t, todo |-> Selected(traitOrder, t)]

\* handleTraitSelect(traitType, trait) of the page, followed by the re-render
\* and the load effect of the canvas-based preview: without traits both Maps
\* are cleared; otherwise loadImages() clears them and runs to its first await
canvasTraitSelect(traitType, trait) ==
    /\ savePc = "idle"
    /\ canvasRun < MaxChanges
    /\ traits' = [traits EXCEPT ![traitType] =
                        IF trait.value = "none" THEN Null ELSE trait]
    /\ canvasRun' = canvasRun + 1
    /\ gifDataRef' = {}
    /\ staticImagesRef' = {}
    /\ canvasLoaded' = {}
    /\ canvasRuns' = IF hasTraits(traits') /\ Selected(traitOrder, traits') # <<>>
                     THEN canvasRuns \cup {CanvasRun(canvasRun', traits')}
                     ELSE canvasRuns
    /\ UNCHANGED <<imageRefs, savePc, saveSender, sentTraitUrls, saveTraits, download, clicks, alerts,
                   observeLoads, gifSyncKey, loadRuns, loadedImages, isProcessing,
                   serverVars, fetchVars, pixelVars>>

\* The image a loadImages() call awaits settles, and the call runs to its
\* next await or to its end.  A GIF: extractGifFrames resolves with one frame
\* (ok) or with [] (img.onerror, no 2d context, getImageData throws), and the
\* entry is set when frames.length > 0.  A static image: onload, then the
\* entry is set, or onerror, caught with setError.
canvasLoadSettled(gen, ok) ==
    /\ \E run \in canvasRuns : run.gen = gen
    /\ LET run == CHOOSE r \in canvasRuns : r.gen = gen
           traitType == Head(run.todo)
           isGif == EndsWithGif(run.sel[traitType].image)
           rest == [run EXCEPT !.todo = Tail(run.todo)]
       IN /\ gifDataRef' = IF ok /\ isGif THEN gifDataRef \cup {traitType}
                           ELSE gifDataRef
          /\ staticImagesRef' = IF ok /\ ~isGif THEN staticImagesRef \cup {traitType}
                                ELSE staticImagesRef
          /\ canvasLoaded' = IF ok /\ gen = canvasRun
                             THEN canvasLoaded \cup {traitType}
                             ELSE canvasLoaded
          /\ canvasRuns' = IF rest.todo = <<>>
                           THEN canvasRuns \ {run}
                           ELSE (canvasRuns \ {run}) \cup {rest}
    /\ UNCHANGED <<traits, imageRefs, savePc, saveSender, sentTraitUrls, saveTraits,
                   download, clicks, alerts, observeLoads, gifSyncKey, loadRuns, loadedImages,
                   isProcessing, canvasRun, serverVars, fetchVars, pixelVars>>

\* a.download and the format of the data behind a.href
NoDownload == [name |-> "", format |-> ""]

Download(name, format) == [name |-> name, format |-> format]

Senders == {"SaveButton", "part_006"}

\* the texts of the two alert() calls
NoTraitsAlert == "Please select at least one trait to save"

FailureAlert == "Failed to generate image. Please try again."

\* a variant of handleSave without the hasTraits check: the request is sent
handleSaveNoTraitsSends(sender) ==
    /\ savePc = "idle"
    /\ ~hasTraits(traits)
    /\ savePc' = "awaiting"
    /\ saveSender' = sender
    /\ saveTraits' = traits
    /\ sentTraitUrls' = SaveTraitUrls(traits)
    /\ UNCHANGED <<download, clicks, alerts, traits, imageRefs, previewVars, serverVars, fetchVars, pixelVars>>

\* either handleSave with no trait selected: alert and return
handleSaveNoTraits(sender) ==
    /\ savePc = "idle"
    /\ ~hasTraits(traits)
    /\ savePc' = "noTraits"
    /\ saveSender' = sender
    /\ saveTraits' = traits
    /\ alerts' = Append(alerts, NoTraitsAlert)
    /\ UNCHANGED <<sentTraitUrls, download, clicks>>
    /\ UNCHANGED <<traits, imageRefs, previewVars, serverVars, fetchVars, pixelVars>>

\* SaveButton.tsx handleSave up to the fetch of /api/combine-gifs (page.tsx
\* passes no gifUrl, so the server path is taken whenever a trait is selected)
handleSave ==
    /\ savePc = "idle"
    /\ hasTraits(traits)
    /\ savePc' = "awaiting"
    /\ saveSender' = "SaveButton"
    /\ saveTraits' = traits
    /\ sentTraitUrls' = SaveTraitUrls(traits)
    /\ UNCHANGED <<download, clicks, alerts, traits, imageRefs, previewVars, serverVars, fetchVars, pixelVars>>

\* canvas.toDataURL(type): a browser encodes PNG unless it supports the
\* type asked for, which none does for image/gif
toDataURL(type) == IF type \in {"image/png", "image/jpeg", "image/webp"}
                   THEN type ELSE "image/png"

FormatOfMime(mime) ==
    CASE mime = "image/png" -> "png"
      [] mime = "image/gif" -> "gif"
      [] mime = "image/jpeg" -> "jpeg"
      [] mime = "image/webp" -> "webp"
      [] OTHER -> ""

\* part_006 handleSave when html2canvas resolves: the capture is saved
handleSaveCapture ==
    /\ savePc = "idle"
    /\ hasTraits(traits)
    /\ savePc' = "finished"
    /\ saveSender' = "part_006"
    /\ saveTraits' = traits
    /\ download' = Download("nft-avatar.gif", FormatOfMime(toDataURL("image/gif")))
    /\ clicks' = clicks + 1
    /\ UNCHANGED <<alerts, sentTraitUrls, traits, imageRefs, previewVars, serverVars, fetchVars, pixelVars>>

\* part_006 handleSave when html2canvas throws: the server fallback
handleSaveFallback ==
    /\ savePc = "idle"
    /\ hasTraits(traits)
    /\ savePc' = "awaiting"
    /\ saveSender' = "part_006"
    /\ saveTraits' = traits
    /\ sentTraitUrls' = FallbackTraitUrls(traits)
    /\ UNCHANGED <<download, clicks, alerts, traits, imageRefs, previewVars, serverVars, fetchVars, pixelVars>>

\* finally { setIsProcessing(false) }: handleSave has run to its end
saveSettled ==
    /\ savePc \in {"noTraits", "finished"}
    /\ savePc' = "idle"
    /\ saveSender' = "none"
    /\ saveTraits' = initialTraits
    /\ sentTraitUrls' = <<>>
    /\ download' = NoDownload
    /\ clicks' = 0
    /\ alerts' = <<>>
    /\ UNCHANGED <<traits, imageRefs, previewVars, serverVars, fetchVars, pixelVars>>

-----------------------------------------------------------------------------
(* The assets behind the URLs a request can name.  What fetch returns for  *)
(* a URL is fixed for the length of a request: the stored bytes.           *)

MaxFrames == 3

\* URLs that requests are built from: relative ones as the page sends them
\* and absolute ones
bgGif == Asset("background", "1")
furGif == Url("http", <<"cdn", "fur">>, "4", "gif")
furGif5 == Url("http", <<"cdn", "fur">>, "5", "gif")
eyesPng == Url("http", <<"cdn", "eyes">>, "14", "png")
maskGif0 == Url("http", <<"cdn", "mask">>, "0", "gif")
headBad == Url("http", <<"cdn", "head">>, "bad", "png")

\* null / '' entries of traitUrls
EmptyUrl == Url("", <<>>, "", "")

RequestUrls == {bgGif, furGif, furGif5, eyesPng, maskGif0, headBad, TransparentGif}

\* The bytes stored under a URL's path: a GIF with the stored delay of each
\* frame (in 1/100 s, as the file holds it), a static image, or bytes no
\* decoder accepts.
Bytes(u) ==
    CASE u.file = "1" -> [kind |-> "gif", delays |-> [i \in 1..MaxFrames |-> 10],
                          width |-> 500, height |-> 500]
      [] u.file = "4" -> [kind |-> "gif", delays |-> <<5, 5>>,
                          width |-> 600, height |-> 600]
      [] u.file = "5" -> [kind |-> "gif", delays |-> <<20, 0, 10>>,
                          width |-> 600, height |-> 600]
      [] u.file = "14" -> [kind |-> "png", delays |-> <<>>,
                           width |-> 400, height |-> 400]
      [] u.file = "0" -> [kind |-> "gif", delays |-> <<>>,
                          width |-> 300, height |-> 300]
      [] u.file = "transparent" -> [kind |-> "gif", delays |-> <<0>>,
                                    width |-> 1, height |-> 1]
      [] OTHER -> [kind |-> "corrupt", delays |-> <<>>, width |-> 0, height |-> 0]

-----------------------------------------------------------------------------
(* fetchImageWithRetry: src/app/api/combine-gifs/route.ts:7 (the same       *)
(* function is repeated at route.ts:131, part_009:10, GifGenerator.tsx:158) *)

Retries == 3

\* how one fetch attempt can end: the body arrives, the status is not OK,
\* or fetch / arrayBuffer throws
Outcomes == {"ok", "notok", "throws"}

\* node-fetch rejects a URL without a scheme ("Only absolute URLs are
\* supported"), whatever the network does
AttemptOutcomes(u) == IF u.scheme = "" THEN {"throws"} ELSE Outcomes

\* a variant of the back-off that waits the same 300 ms after every failure
RetryWaitFlat(i) == 300

\* setTimeout(resolve, 300 * (i + 1))
RetryWaitMs(i) == 300 * (i + 1)

\* One turn of the for loop with loop variable i: return the buffer, rethrow
\* on the last turn, or await the timer and go round again.
AttemptStep(i, retries, outcome) ==
    IF outcome = "ok" THEN [kind |-> "return", ms |-> 0]
    ELSE IF i = retries - 1 THEN [kind |-> "throw", ms |-> 0]
    ELSE [kind |-> "wait", ms |-> RetryWaitMs(i)]

\* The whole call, given how each attempt ends: "ok" (a buffer) or "throw".
RECURSIVE FetchFrom(_, _, _)
FetchFrom(outs, i, retries) ==
    IF ~(i < retries) THEN "throw"
    ELSE LET st == AttemptStep(i, retries, outs[i + 1])
         IN CASE st.kind = "return" -> "ok"
              [] st.kind = "throw" -> "throw"
              [] OTHER -> FetchFrom(outs, i + 1, retries)

fetchImageWithRetry(outs) == FetchFrom(outs, 0, Retries)

\* The call as the steps it takes: an attempt, then (unless it returned or
\* threw) the timer.
FetchAttempt ==
    /\ fPc = "attempt"
    /\ fI < Retries
    /\ \E o \in AttemptOutcomes(fUrl) :
          LET st == AttemptStep(fI, Retries, o)
          IN /\ fLog' = Append(fLog, o)
             /\ fPc' = CASE st.kind = "return" -> "returned"
                         [] st.kind = "throw" -> "thrown"
                         [] OTHER -> "waiting"
             /\ fWaits' = IF st.kind = "wait" THEN Append(fWaits, st.ms) ELSE fWaits
    /\ UNCHANGED <<fUrl, fI, uiVars, serverVars, pixelVars>>

\* the timer fires: i++ and the loop condition is tested again
FetchTimer ==
    /\ fPc = "waiting"
    /\ fI' = fI + 1
    /\ fPc' = IF fI + 1 < Retries THEN "attempt" ELSE "thrown"
    /\ UNCHANGED <<fUrl, fLog, fWaits, uiVars, serverVars, pixelVars>>

IdleFetch ==
    /\ fUrl = EmptyUrl
    /\ fPc = "idle"
    /\ fI = 0
    /\ fLog = <<>>
    /\ fWaits = <<>>

InitFetch ==
    /\ fUrl \in RequestUrls \cup {Url("", <<"ape-punks-avatar.vercel.app", "assets", "fur">>, "4", "gif")}
    /\ fPc = "attempt"
    /\ fI = 0
    /\ fLog = <<>>
    /\ fWaits = <<>>

-----------------------------------------------------------------------------
(* The POST handlers of /api/combine-gifs.  The repository holds several:  *)
(*   "lenient"  src/app/api/combine-gifs/route.ts:24    sort, draw, PNG    *)
(*   "strict"   src/app/api/combine-gifs/route.ts:289   two passes, no sort*)
(*   "part009"  src/unnamed/part_009:58                 sort, canvas, GIF  *)
(*   "jimp"     src/app/components/GifGenerator.tsx:208 sort, Jimp, GIF    *)
(*   "canvas"   src/app/components/GifGenerator.tsx:522 sort, canvas, GIF  *)

MaxUrls == 2

Variants == {"lenient", "strict", "part009", "jimp", "canvas"}

Sorting == {"lenient", "part009", "jimp", "canvas"}

NoResponse ==
    [status |-> 0, success |-> FALSE, imageData |-> "", format |-> "",
     hasFrameCount |-> FALSE, frameCount |-> 0, error |-> "", hasDetails |-> FALSE]

\* NextResponse.json({ error }, { status }) and, from the outer catch,
\* NextResponse.json({ error, details }, { status: 500 })
ErrorResponse(status, error, hasDetails) ==
    [status |-> status, success |-> FALSE, imageData |-> "", format |-> "",
     hasFrameCount |-> FALSE, frameCount |-> 0, error |-> error,
     hasDetails |-> hasDetails]

\* NextResponse.json({ success: true, imageData, format[, frameCount] });
\* imageData is kept as the MIME type of its data: URI
SuccessResponse(mime, format, hasFrameCount, frameCount) ==
    [status |-> 200, success |-> TRUE, imageData |-> mime, format |-> format,
     hasFrameCount |-> hasFrameCount, frameCount |-> frameCount, error |-> "",
     hasDetails |-> FALSE]

CaughtResponse(v) ==
    ErrorResponse(500,
        CASE v = "strict" -> "Failed to generate image"
          [] v = "part009" -> "Failed to combine GIFs"
          [] OTHER -> "Failed to combine images",
        TRUE)

\* url && url !== '' / filter(Boolean)
Truthy(u) == u # EmptyUrl

\* if (url.startsWith('/')) return `${baseUrl}${url}` with the literal
\* default base 'http://localhost:3000' (NEXTAUTH_URL / VERCEL_URL unset)
WithBaseUrl(u) ==
    IF u.scheme = "" THEN [u EXCEPT !.scheme = "http", !.dirs = <<"localhost:3000">> \o u.dirs]
    ELSE u

\* getAbsoluteUrl of the strict handler: 'ape-punks-avatar.vercel.app' + '/'
\* + the path, with no scheme in front
getAbsoluteUrl(u) ==
    IF u.scheme \in {"http", "https"} THEN u
    ELSE [u EXCEPT !.dirs = <<"ape-punks-avatar.vercel.app">> \o u.dirs]

layerOrder ==
    <<"background", "fur", "face", "eyes", "mouth", "head", "mask", "minion">>

\* for (i...) if (url.includes(`/${layerOrder[i]}/`)) return i; return length
RECURSIVE LayerIndexFrom(_, _)
LayerIndexFrom(u, i) ==
    IF i > Len(layerOrder) THEN Len(layerOrder)
    ELSE IF layerOrder[i] \in Range(u.dirs) THEN i - 1
    ELSE LayerIndexFrom(u, i + 1)

getLayerIndex(u) == LayerIndexFrom(u, 1)

\* validUrls.sort((a, b) => getLayerIndex(a) - getLayerIndex(b)): stable
\* a variant of the sort that leaves the URLs in the order of the request
SortByLayerRequestOrder(s) == s

SortByLayer(s) ==
    StableSortFrom(s, [u \in Range(s) |-> getLayerIndex(u)], 0, Len(layerOrder))

\* [...new Set(list)]: first occurrences, in order
RECURSIVE Unique(_)
Unique(s) ==
    IF s = <<>> THEN <<>>
    ELSE LET init == Unique(SubSeq(s, 1, Len(s) - 1))
             last == s[Len(s)]
         IN IF last \in Range(init) THEN init ELSE Append(init, last)

MapSeq(s, F(_)) == [i \in 1..Len(s) |-> F(s[i])]

\* the list the handler goes on with, once traitUrls is known to be an array
ValidUrls(v, items) ==
    IF v = "strict" THEN MapSeq(Unique(SelectSeq(items, Truthy)), getAbsoluteUrl)
    ELSE SortByLayer(MapSeq(SelectSeq(items, Truthy), WithBaseUrl))

\* (frameInfo.delay || 10) * 10 in the strict handler's extractGifFrames,
\* (typeof frameInfo.delay === 'number' ? frameInfo.delay : 10) * 10 elsewhere
DecodeDelay(v, stored) ==
    IF v = "strict" THEN (IF stored = 0 THEN 10 ELSE stored) * 10
    ELSE stored * 10

\* url.toLowerCase().endsWith('.gif'), and in the strict handler also the
\* magic bytes 'GIF' of the buffer
IsGif(v, u) ==
    \/ u.ext = "gif"
    \/ v = "strict" /\ Bytes(u).kind = "gif"

\* new GifReader(buffer) throws unless the bytes are a GIF
GifDecodes(u) == Bytes(u).kind = "gif"

\* loadImage(buffer) / Jimp.read(buffer): an image with at least one frame
StaticDecodes(u) ==
    \/ Bytes(u).kind = "png"
    \/ Bytes(u).kind = "gif" /\ Len(Bytes(u).delays) > 0

GifAsset(v, u) ==
    LET d == Bytes(u).delays
    IN [url |-> u, isGif |-> TRUE, frameCount |-> Len(d),
        delays |-> [i \in 1..Len(d) |-> DecodeDelay(v, d[i])]]

\* the strict handler gives a static layer one frame of delay 100; the others
\* keep the decoded image and no frames
StaticAsset(v, u) ==
    IF v = "strict"
    THEN [url |-> u, isGif |-> FALSE, frameCount |-> 1, delays |-> <<100>>]
    ELSE [url |-> u, isGif |-> FALSE, frameCount |-> 0, delays |-> <<>>]

Max(a, b) == IF a > b THEN a ELSE b

Size(w, h) == [width |-> w, height |-> h]

\* reader.width, reader.height / image.width, image.height
ImageSize(u) == Size(Bytes(u).width, Bytes(u).height)

\* canvasWidth, canvasHeight as each handler declares them
InitialCanvas(v) ==
    CASE v = "strict" -> Size(500, 500)
      [] v = "part009" -> Size(0, 0)
      [] OTHER -> Size(1000, 1000)

\* strict handler, first pass: the canvas after a layer was looked at
FirstPassCanvas(cv, u, counted, static) ==
    IF counted
    THEN Size(Max(cv.width, ImageSize(u).width), Max(cv.height, ImageSize(u).height))
    ELSE IF static THEN Size(Max(cv.width, 200), Max(cv.height, 200))
    ELSE cv

\* the other handlers: the canvas after an asset was pushed
LoadCanvas(v, cv, u, isGif, gifsBefore) ==
    IF v = "part009" THEN (IF cv.width = 0 THEN ImageSize(u) ELSE cv)
    ELSE IF isGif \/ ~gifsBefore THEN ImageSize(u)
    ELSE cv

NoEncoder == [made |-> FALSE, width |-> 0, height |-> 0, loops |-> -1, frames |-> <<>>]

\* new GIFEncoder(width, height), setRepeat / loops, and the frames added
Encoder(size, loops, frames) ==
    [made |-> TRUE, width |-> size.width, height |-> size.height, loops |-> loops,
     frames |-> frames]

\* one frame given to the encoder: its size, the bytes per pixel of its
\* buffer, and the delay set for it with its unit
EncoderFrame(size, channels, delay, unit) ==
    [width |-> size.width, height |-> size.height, channels |-> channels,
     delay |-> delay, unit |-> unit]

\* delayCentisecs without the division
DelayCentisecsInMs(delayMs) == Max(1, delayMs)

\* delayCentisecs: Math.max(1, Math.floor(frame.delay / 10))
DelayCentisecs(delayMs) == Max(1, delayMs \div 10)

\* strict handler: gifFrames and the options of codec.encodeGif, which takes
\* the size from the frames
StrictEncoder(frames, cv) ==
    Encoder(cv, 0, [n \in 1..Len(frames) |->
                      EncoderFrame(cv, 3, DelayCentisecs(frames[n].delay), "cs")])

\* part_009: every frame is the main canvas
Part009Encoder(frames, cv) ==
    Encoder(cv, 0, [n \in 1..Len(frames) |-> EncoderFrame(cv, 4, frames[n].delay, "ms")])

\* GifGenerator.tsx: the Jimp handler adds the bitmap of baseImage, which
\* has the size of the first asset; the canvas handler adds a canvas
GifGeneratorEncoder(v, frames, cv, as) ==
    LET size == IF v = "jimp" THEN ImageSize(as[1].url) ELSE cv
    IN Encoder(cv, 0, [n \in 1..Len(frames) |->
                         EncoderFrame(size, 4, frames[n].delay, "ms")])

\* whether the body of the load loop's try block runs to its end for u, given
\* the outcome of each fetch attempt
LoadSucceeds(v, u, outs) ==
    /\ fetchImageWithRetry(outs) = "ok"
    /\ CASE v = "lenient" -> StaticDecodes(u)
         [] IsGif(v, u) -> GifDecodes(u)
         [] v = "strict" -> TRUE        \* loadStaticImage never reads the buffer
         [] OTHER -> StaticDecodes(u)

\* history: one load of u by the given pass, and whether the try block ran
\* to its end
LogEntry(pass, u, ok) == [pass |-> pass, url |-> u, ok |-> ok]

\* whether a fetchImageWithRetry call returned its buffer only after a failed
\* attempt
Retried(outs) == fetchImageWithRetry(outs) = "ok" /\ outs[1] # "ok"

LoadedAsset(v, u) == IF IsGif(v, u) THEN GifAsset(v, u) ELSE StaticAsset(v, u)

\* every way the three attempts of one fetchImageWithRetry call can end
AttemptSeqs(u) == [1..Retries -> AttemptOutcomes(u) \ {"notok"}]

\* i % asset.frameCount: NaN when frameCount is 0
JsMod(i, n) == [isNaN |-> n = 0, val |-> IF n = 0 THEN 0 ELSE i % n]

\* whether the combine loop reads asset.frames[frameNum] for this asset: for
\* every asset in the strict handler (a static one has one frame), for the
\* GIF assets elsewhere (a static one is drawn as the image it is)
ReadsFrame(v, a) == v = "strict" \/ a.isGif

\* asset.frames[NaN] is undefined, and reading a property of it throws
FrameThrows(v, a) == ReadsFrame(v, a) /\ JsMod(0, a.frameCount).isNaN

Crashes(v, as) == \E j \in 1..Len(as) : FrameThrows(v, as[j])

FirstCrash(v, as) == CHOOSE j \in 1..Len(as) :
    FrameThrows(v, as[j]) /\ \A h \in 1..(j - 1) : ~FrameThrows(v, as[h])

FrameUse(a, i) ==
    [url |-> a.url, i |-> i, frameCount |-> a.frameCount,
     frameNum |-> JsMod(i, a.frameCount)]

\* every asset.frames[frameNum] the nested loops evaluate before they end or
\* throw
FrameUsesOf(v, as, mf) ==
    IF Crashes(v, as)
    THEN {FrameUse(as[j], 0) : j \in {h \in 1..FirstCrash(v, as) : ReadsFrame(v, as[h])}}
    ELSE {FrameUse(as[j], i) : j \in {h \in 1..Len(as) : ReadsFrame(v, as[h])},
                               i \in 0..(mf - 1)}

\* let frameDelay = 100; then, per asset whose frame is read,
\* frameDelay = Math.max(frameDelay, frame.delay)
RECURSIVE FrameDelayFrom(_, _, _, _, _)
FrameDelayFrom(v, as, i, j, frameDelay) ==
    IF j > Len(as) THEN frameDelay
    ELSE LET a == as[j]
             d == IF ReadsFrame(v, a)
                  THEN Max(frameDelay, a.delays[JsMod(i, a.frameCount).val + 1])
                  ELSE frameDelay
         IN FrameDelayFrom(v, as, i, j + 1, d)

InitialFrameDelay == 100

FrameDelay(v, as, i) == FrameDelayFrom(v, as, i, 1, InitialFrameDelay)

\* output frame i: its delay and, back to front, the layer frames drawn
CombinedFrame(v, as, i) ==
    [delay |-> FrameDelay(v, as, i),
     srcs |-> [j \in 1..Len(as) |->
                 [url |-> as[j].url,
                  frameNum |-> IF ReadsFrame(v, as[j])
                               THEN JsMod(i, as[j].frameCount).val ELSE 0]]]

\* the frames the loops push, when nothing throws: the strict and the Jimp
\* handler push a frame only if some asset gave it a base image
CombineFrames(v, as, mf) ==
    IF v \in {"strict", "jimp"} /\ as = <<>> THEN <<>>
    ELSE [n \in 1..mf |-> CombinedFrame(v, as, n - 1)]

AssetUrls(as) == [j \in 1..Len(as) |-> as[j].url]

-----------------------------------------------------------------------------
(* Actions of a POST request *)

\* the head of every handler: the array test, the filter, the URL rewrite
\* and (but for the strict handler) the sort
Validate ==
    /\ pc = "received"
    /\ IF ~body.isArray
       THEN /\ response' = ErrorResponse(400, "Invalid input: traitUrls must be an array", FALSE)
            /\ pc' = "done"
            /\ UNCHANGED <<urls, k, maxFrames, canvas>>
       ELSE LET valid == ValidUrls(variant, body.items)
            IN IF valid = <<>>
               THEN /\ response' = ErrorResponse(400, IF variant = "strict"
                                                      THEN "No valid URLs provided"
                                                      ELSE "No valid image URLs provided",
                                                 FALSE)
                    /\ pc' = "done"
                    /\ UNCHANGED <<urls, k, maxFrames, canvas>>
               ELSE /\ urls' = valid
                    /\ k' = 1
                    /\ maxFrames' = 1
                    /\ canvas' = InitialCanvas(variant)
                    /\ pc' = IF variant = "strict" THEN "firstPass" ELSE "load"
                    /\ UNCHANGED response
    /\ UNCHANGED <<layerPixels, encoder, retried, variant, body, hasGifs, assets, drawn, combinedFrames,
                   frameUses, loadLog, uiVars, fetchVars, pixelVars>>

\* where a for..of loop over urls goes after the element at k
AfterLoop(next) == IF k = Len(urls) THEN next ELSE pc

\* a variant of the first pass that counts the frames of a GIF only when
\* the first fetch attempt returned it
FirstPassFirstAttemptOnly ==
    /\ pc = "firstPass"
    /\ variant = "strict"
    /\ \E outs \in AttemptSeqs(urls[k]) :
          LET u == urls[k]
              ok == LoadSucceeds(variant, u, outs)
              counted == ok /\ ~Retried(outs) /\ IsGif(variant, u) /\ GifAsset(variant, u).frameCount > 0
          IN /\ maxFrames' = IF counted THEN Max(maxFrames, GifAsset(variant, u).frameCount)
                             ELSE maxFrames
             /\ hasGifs' = (hasGifs \/ counted)
             /\ canvas' = FirstPassCanvas(canvas, u, counted,
                                           fetchImageWithRetry(outs) = "ok" /\ ~IsGif(variant, u))
             /\ loadLog' = Append(loadLog, LogEntry(1, u, ok))
             /\ retried' = (retried \/ Retried(outs))
    /\ pc' = AfterLoop("load")
    /\ k' = IF k = Len(urls) THEN 1 ELSE k + 1
    /\ UNCHANGED <<layerPixels, encoder, variant, body, urls, assets, drawn, combinedFrames, frameUses,
                   response, uiVars, fetchVars, pixelVars>>

\* strict handler, first pass over one URL: frame count and hasGifs; the
\* catch only logs
FirstPass ==
    /\ pc = "firstPass"
    /\ variant = "strict"
    /\ \E outs \in AttemptSeqs(urls[k]) :
          LET u == urls[k]
              ok == LoadSucceeds(variant, u, outs)
              counted == ok /\ IsGif(variant, u) /\ GifAsset(variant, u).frameCount > 0
          IN /\ maxFrames' = IF counted THEN Max(maxFrames, GifAsset(variant, u).frameCount)
                             ELSE maxFrames
             /\ hasGifs' = (hasGifs \/ counted)
             /\ canvas' = FirstPassCanvas(canvas, u, counted,
                                           fetchImageWithRetry(outs) = "ok" /\ ~IsGif(variant, u))
             /\ loadLog' = Append(loadLog, LogEntry(1, u, ok))
             /\ retried' = (retried \/ Retried(outs))
    /\ pc' = AfterLoop("load")
    /\ k' = IF k = Len(urls) THEN 1 ELSE k + 1
    /\ UNCHANGED <<layerPixels, encoder, variant, body, urls, assets, drawn, combinedFrames, frameUses,
                   response, uiVars, fetchVars, pixelVars>>

\* strict handler, second pass over one URL: the asset is kept, or the
\* handler answers 400
SecondPass ==
    /\ pc = "load"
    /\ variant = "strict"
    /\ \E outs \in AttemptSeqs(urls[k]) :
          LET u == urls[k]
              ok == LoadSucceeds(variant, u, outs)
          IN /\ loadLog' = Append(loadLog, LogEntry(2, u, ok))
             /\ retried' = (retried \/ Retried(outs))
             /\ IF ok
                THEN /\ assets' = Append(assets, LoadedAsset(variant, u))
                     /\ pc' = AfterLoop("finish")
                     /\ k' = k + 1
                     /\ UNCHANGED response
                ELSE /\ response' = ErrorResponse(400, "Failed to load image", FALSE)
                     /\ pc' = "done"
                     /\ UNCHANGED <<assets, k>>
    /\ UNCHANGED <<layerPixels, canvas, encoder, variant, body, urls, maxFrames, hasGifs, drawn, combinedFrames,
                   frameUses, uiVars, fetchVars, pixelVars>>

\* a variant of the lenient draw loop whose catch leaves the loop: the
\* layers after a failed one are not tried
LenientDrawStopsAtFailure ==
    /\ pc = "load"
    /\ variant = "lenient"
    /\ \E outs \in AttemptSeqs(urls[k]) :
          LET u == urls[k]
              ok == LoadSucceeds(variant, u, outs)
          IN /\ loadLog' = Append(loadLog, LogEntry(1, u, ok))
             /\ retried' = (retried \/ Retried(outs))
             /\ drawn' = IF ok THEN Append(drawn, u) ELSE drawn
             /\ pc' = IF ok THEN AfterLoop("finish") ELSE "finish"
    /\ k' = k + 1
    /\ UNCHANGED <<layerPixels, canvas, encoder, variant, body, urls, maxFrames, hasGifs, assets, combinedFrames,
                   frameUses, response, uiVars, fetchVars, pixelVars>>

\* lenient handler, one URL: fetch, loadImage, drawImage; the catch only logs
LenientDraw ==
    /\ pc = "load"
    /\ variant = "lenient"
    /\ \E outs \in AttemptSeqs(urls[k]) :
          LET u == urls[k]
              ok == LoadSucceeds(variant, u, outs)
          IN /\ loadLog' = Append(loadLog, LogEntry(1, u, ok))
             /\ retried' = (retried \/ Retried(outs))
             /\ drawn' = IF ok THEN Append(drawn, u) ELSE drawn
    /\ pc' = AfterLoop("finish")
    /\ k' = k + 1
    /\ UNCHANGED <<layerPixels, canvas, encoder, variant, body, urls, maxFrames, hasGifs, assets, combinedFrames,
                   frameUses, response, uiVars, fetchVars, pixelVars>>

\* part_009 and both GifGenerator.tsx handlers, one URL: the asset is kept;
\* the catch only logs
LoadAsset ==
    /\ pc = "load"
    /\ variant \in {"part009", "jimp", "canvas"}
    /\ \E outs \in AttemptSeqs(urls[k]) :
          LET u == urls[k]
              ok == LoadSucceeds(variant, u, outs)
              a == LoadedAsset(variant, u)
          IN /\ loadLog' = Append(loadLog, LogEntry(1, u, ok))
             /\ retried' = (retried \/ Retried(outs))
             /\ assets' = IF ok THEN Append(assets, a) ELSE assets
             /\ maxFrames' = IF ok /\ a.isGif THEN Max(maxFrames, a.frameCount)
                             ELSE maxFrames
             /\ hasGifs' = (hasGifs \/ (variant # "part009" /\ ok /\ a.isGif))
             /\ canvas' = IF ok THEN LoadCanvas(variant, canvas, u, a.isGif, hasGifs)
                          ELSE canvas
    /\ pc' = AfterLoop("finish")
    /\ k' = k + 1
    /\ UNCHANGED <<layerPixels, encoder, variant, body, urls, drawn, combinedFrames, frameUses,
                   response, uiVars, fetchVars, pixelVars>>

\* lenient handler: canvas.toBuffer('image/png') and the answer
LenientRespond ==
    /\ pc = "finish"
    /\ variant = "lenient"
    /\ response' = SuccessResponse("image/png", "png", FALSE, 0)
    /\ pc' = "done"
    /\ UNCHANGED <<layerPixels, canvas, encoder, retried, variant, body, urls, k, maxFrames, hasGifs, assets, drawn,
                   combinedFrames, frameUses, loadLog, uiVars, fetchVars, pixelVars>>

\* ---- the pixel buffers of the layers through the combine loop.  The
\* content of a buffer is named by the layer frames composited into it, in
\* order: a decoded frame holds itself only

\* the pixel data of frame f (asset.image for a static layer) of layer j
\* right after decoding
DecodedPixels(j, f) == <<[layer |-> j, frameNum |-> f]>>

\* frames[...].pixels of a GIF layer; the one image of a static layer
BufferCount(a) == IF a.isGif THEN a.frameCount ELSE 1

DecodedLayers(as) ==
    [j \in 1..Len(as) |-> [f \in 1..BufferCount(as[j]) |-> DecodedPixels(j, f - 1)]]

NoLayerPixels == [after |-> <<>>, uses |-> {}]

\* basePixels / baseImage: null, a buffer of its own, or the buffer of the
\* layer frame it was built on
NullBase == [kind |-> "null", layer |-> 0, frameNum |-> 0, pixels |-> <<>>]

OwnBuffer(pixels) == [kind |-> "own", layer |-> 0, frameNum |-> 0, pixels |-> pixels]

FrameBuffer(j, f) == [kind |-> "frame", layer |-> j, frameNum |-> f, pixels |-> <<>>]

\* the combine loop from the step n on, a step being one asset of one
\* output frame.  The strict handler copies the first frame (new
\* Uint8Array(frame.pixels)) and compositeImages returns a new buffer; the
\* canvas handlers copy each frame onto a canvas; the Jimp handler wraps
\* frame.pixels in a Jimp, which keeps the buffer it is given or copies it
\* (shared), and composite() writes into baseImage
RECURSIVE CompositeLoopFrom(_, _, _, _, _, _)
CompositeLoopFrom(v, as, mf, shared, n, st) ==
    IF st.crashed \/ n >= mf * Len(as) THEN st
    ELSE LET i == n \div Len(as)
             j == (n % Len(as)) + 1
             a == as[j]
             base == IF j = 1 THEN NullBase ELSE st.base
         IN IF FrameThrows(v, a) THEN [st EXCEPT !.crashed = TRUE]
            ELSE LET f == IF a.isGif THEN JsMod(i, a.frameCount).val ELSE 0
                     src == st.heap[j][f + 1]
                     image == IF shared /\ a.isGif THEN FrameBuffer(j, f)
                              ELSE OwnBuffer(src)
                     heap == IF base.kind = "frame"
                             THEN [st.heap EXCEPT ![base.layer][base.frameNum + 1] = @ \o src]
                             ELSE st.heap
                     next == CASE base.kind = "null" -> image
                               [] base.kind = "frame" -> base
                               [] OTHER -> OwnBuffer(base.pixels \o src)
                 IN CompositeLoopFrom(v, as, mf, shared, n + 1,
                        [heap |-> heap, base |-> next, crashed |-> FALSE,
                         uses |-> st.uses \cup
                                    {[layer |-> j, frameNum |-> f, out |-> i, pixels |-> src]}])

CompositeLoop(v, as, mf, shared) ==
    CompositeLoopFrom(v, as, mf, shared, 0,
                      [heap |-> DecodedLayers(as), base |-> NullBase, crashed |-> FALSE,
                       uses |-> {}])

LayerPixelsAfter(st) == [after |-> st.heap, uses |-> st.uses]

\* the answer of a handler that built combinedFrames: a GIF, or the first
\* frame as a PNG
OutputOf(frames, gifs) ==
    IF gifs \/ Len(frames) > 1
    THEN SuccessResponse("image/gif", "gif", TRUE, Len(frames))
    ELSE SuccessResponse("image/png", "png", TRUE, 1)

\* strict handler: the combine loop and the output branch
StrictFinish ==
    /\ pc = "finish"
    /\ variant = "strict"
    /\ frameUses' = IF assets # <<>> THEN FrameUsesOf(variant, assets, maxFrames) ELSE {}
    /\ IF Crashes(variant, assets)
       THEN /\ response' = CaughtResponse(variant)
            /\ UNCHANGED <<combinedFrames, drawn, encoder>>
       ELSE LET frames == CombineFrames(variant, assets, maxFrames)
            IN /\ combinedFrames' = frames
               /\ IF frames = <<>>
                  THEN /\ response' = ErrorResponse(400, "No frames to generate output", FALSE)
                       /\ UNCHANGED <<drawn, encoder>>
                  ELSE /\ response' = OutputOf(frames, hasGifs)
                       /\ encoder' = IF hasGifs \/ Len(frames) > 1
                                     THEN StrictEncoder(frames, canvas)
                                     ELSE encoder
                       /\ drawn' = AssetUrls(assets)
    /\ layerPixels' = LayerPixelsAfter(CompositeLoop(variant, assets, maxFrames, FALSE))
    /\ pc' = "done"
    /\ UNCHANGED <<canvas, retried, variant, body, urls, k, maxFrames, hasGifs, assets, loadLog,
                   uiVars, fetchVars, pixelVars>>

\* part_009: a PNG of the static assets when no asset is a GIF, else the
\* frame loop feeding the encoder
Part009Finish ==
    /\ pc = "finish"
    /\ variant = "part009"
    /\ LET gifs == \E j \in 1..Len(assets) : assets[j].isGif
           cv == IF canvas.width = 0 THEN Size(1000, 1000) ELSE canvas
       IN /\ hasGifs' = gifs
          /\ canvas' = cv
          /\ layerPixels' = LayerPixelsAfter(CompositeLoop(variant, assets,
                                              IF gifs THEN maxFrames ELSE 0, FALSE))
          /\ IF ~gifs
             THEN /\ response' = SuccessResponse("image/png", "png", FALSE, 0)
                  /\ drawn' = AssetUrls(assets)
                  /\ UNCHANGED <<combinedFrames, frameUses, encoder>>
             ELSE /\ frameUses' = FrameUsesOf(variant, assets, maxFrames)
                  /\ IF Crashes(variant, assets)
                     THEN /\ response' = CaughtResponse(variant)
                          /\ encoder' = Part009Encoder(<<>>, cv)
                          /\ UNCHANGED <<combinedFrames, drawn>>
                     ELSE /\ combinedFrames' = CombineFrames(variant, assets, maxFrames)
                          /\ encoder' = Part009Encoder(CombineFrames(variant, assets, maxFrames), cv)
                          /\ response' = SuccessResponse("image/gif", "gif", TRUE, maxFrames)
                          /\ drawn' = AssetUrls(assets)
    /\ pc' = "done"
    /\ UNCHANGED <<retried, variant, body, urls, k, maxFrames, assets, loadLog, uiVars, fetchVars, pixelVars>>

\* both GifGenerator.tsx handlers: the combine loop and the output branch;
\* with no frame at all, combinedFrames[0].image throws in the Jimp handler
GifGeneratorFinish ==
    /\ pc = "finish"
    /\ variant \in {"jimp", "canvas"}
    /\ frameUses' = FrameUsesOf(variant, assets, maxFrames)
    /\ IF Crashes(variant, assets)
       THEN /\ response' = CaughtResponse(variant)
            /\ UNCHANGED <<combinedFrames, drawn, encoder>>
       ELSE LET frames == CombineFrames(variant, assets, maxFrames)
            IN /\ combinedFrames' = frames
               /\ IF frames = <<>> /\ ~hasGifs
                  THEN /\ response' = CaughtResponse(variant)
                       /\ UNCHANGED <<drawn, encoder>>
                  ELSE /\ response' = OutputOf(frames, hasGifs)
                       /\ encoder' = IF hasGifs \/ Len(frames) > 1
                                     THEN GifGeneratorEncoder(variant, frames, canvas, assets)
                                     ELSE encoder
                       /\ drawn' = AssetUrls(assets)
    /\ \E shared \in (IF variant = "jimp" THEN BOOLEAN ELSE {FALSE}) :
          layerPixels' = LayerPixelsAfter(CompositeLoop(variant, assets, maxFrames, shared))
    /\ pc' = "done"
    /\ UNCHANGED <<canvas, retried, variant, body, urls, k, maxFrames, hasGifs, assets, loadLog,
                   uiVars, fetchVars, pixelVars>>

RECURSIVE SeqsUpTo(_, _)
SeqsUpTo(S, n) ==
    IF n = 0 THEN {<<>>}
    ELSE LET shorter == SeqsUpTo(S, n - 1)
         IN shorter \cup {Append(s, x) : s \in shorter, x \in S}

\* the bodies a client can post: traitUrls missing or no array, or an array
\* of URLs and null / '' entries
Bodies ==
    {[isArray |-> FALSE, items |-> <<>>]}
        \cup {[isArray |-> TRUE, items |-> s] :
                s \in SeqsUpTo(RequestUrls \cup {EmptyUrl}, MaxUrls)}

InitServer ==
    /\ variant \in Variants
    /\ body \in Bodies
    /\ pc = "received"
    /\ urls = <<>>
    /\ k = 0
    /\ maxFrames = 0
    /\ hasGifs = FALSE
    /\ assets = <<>>
    /\ drawn = <<>>
    /\ combinedFrames = <<>>
    /\ frameUses = {}
    /\ response = NoResponse
    /\ loadLog = <<>>
    /\ retried = FALSE
    /\ canvas = Size(0, 0)
    /\ encoder = NoEncoder
    /\ layerPixels = NoLayerPixels

-----------------------------------------------------------------------------
(* compositeImages and resizeFrame of the strict handler                   *)
(* (src/app/api/combine-gifs/route.ts).  A buffer is modelled as the       *)
(* sequence of its pixels, the pixel at idx as <<r, g, b, a>>.             *)

\* the element of a Uint8Array: the value modulo 256
Uint8(x) == x % 256

\* what a read past the end of a buffer stores in a Uint8Array
NoPixel == <<0, 0, 0, 0>>

\* alpha = overlayA + baseA * (1 - overlayA), with overlayA = oa / 255 and
\* baseA = ba / 255, is AlphaNum(oa, ba) / (255 * 255)
AlphaNum(oa, ba) == oa * 255 + ba * (255 - oa)

\* overlay[idx] * overlayA + base[idx] * baseA * (1 - overlayA)
\* is ColourNum(o, oa, b, ba) / (255 * 255)
ColourNum(o, oa, b, ba) == o * oa * 255 + b * ba * (255 - oa)

\* Math.round(num / den), as stored in a Uint8Array: the nearest integer, a
\* half rounded up; NaN (0 / 0) is stored as 0.  The doubles of the code are
\* within a relative error of some 2^-52 of the exact quotient, which decides
\* the result only where the quotient is an exact half: there the double lies
\* on either side of it
MathRound(num, den) ==
    IF den = 0 THEN {0}
    ELSE LET up == (2 * num + den) \div (2 * den)
         IN IF (2 * num) % (2 * den) = den THEN {up - 1, up} ELSE {up}

\* Math.round(alpha * 255), rounded down
MathRoundAlphaFloors(oa, ba) == {AlphaNum(oa, ba) \div 255}

\* Math.round(alpha * 255)
MathRoundAlpha(oa, ba) == MathRound(AlphaNum(oa, ba), 255)

\* the four assignments of the general case
Blend(base, overlay) ==
    LET den == AlphaNum(overlay[4], base[4])
        Channel(c) ==
            {Uint8(v) : v \in MathRound(ColourNum(overlay[c], overlay[4],
                                                   base[c], base[4]), den)}
    IN {<<r, g, b, a>> : r \in Channel(1), g \in Channel(2), b \in Channel(3),
                         a \in {Uint8(v) : v \in MathRoundAlpha(overlay[4], base[4])}}

\* the loop body without its two early cases
compositePixelAlwaysBlends(base, overlay) ==
    [out |-> Blend(base, overlay),
     divByZero |-> AlphaNum(overlay[4], base[4]) = 0]

\* the loop body for one pixel: the pixels it can store, and whether it
\* divided by an alpha of 0
compositePixel(base, overlay) ==
    IF overlay[4] = 0 THEN [out |-> {base}, divByZero |-> FALSE]
    ELSE IF base[4] = 0 THEN [out |-> {overlay}, divByZero |-> FALSE]
    ELSE [out |-> Blend(base, overlay),
          divByZero |-> AlphaNum(overlay[4], base[4]) = 0]

RECURSIVE CompositeFrom(_, _, _, _)
CompositeFrom(base, overlay, i, n) ==
    IF i > n THEN {<<>>}
    ELSE {<<p>> \o rest : p \in compositePixel(base[i], overlay[i]).out,
                          rest \in CompositeFrom(base, overlay, i + 1, n)}

\* the buffers compositeImages can return for two buffers of width * height
\* pixels or more; the result has base.length elements
compositeImages(base, overlay, width, height) ==
    {filled \o [j \in 1..(Len(base) - width * height) |-> NoPixel] :
        filled \in CompositeFrom(base, overlay, 1, width * height)}

compositeImagesCall ==
    /\ cPc = "called"
    /\ cPc' = "returned"
    /\ cResult' \in compositeImages(cBase, cOverlay, Len(cBase), 1)
    /\ cDivByZero' = \E i \in 1..Len(cBase) :
                        compositePixel(cBase[i], cOverlay[i]).divByZero
    /\ UNCHANGED <<cBase, cOverlay, resizeVars, quantizeVars, extractVars, uiVars,
                   serverVars, fetchVars>>

\* the bytes the calls are made with: the ends and the middle of the range,
\* and alphas whose blend is an exact half (102 over 170)
AlphaSamples == {0, 1, 102, 127, 128, 170, 254, 255}

ChannelSamples == {0, 1, 127, 128, 254, 255}

PixelSamples ==
    {<<r, g, 128, a>> : r \in ChannelSamples, g \in {0, 255}, a \in AlphaSamples}

CornerPixels ==
    {<<255, 0, 128, 0>>, <<0, 255, 128, 255>>, <<1, 0, 128, 102>>, <<200, 0, 128, 170>>}

Images == {<<p>> : p \in PixelSamples} \cup {<<p, q>> : p, q \in CornerPixels}

IdleComposite ==
    /\ cPc = "idle"
    /\ cBase = <<>>
    /\ cOverlay = <<>>
    /\ cResult = <<>>
    /\ cDivByZero = FALSE

InitComposite ==
    /\ cPc = "called"
    /\ cBase \in Images
    /\ cOverlay \in Images
    /\ Len(cBase) = Len(cOverlay)
    /\ cResult = <<>>
    /\ cDivByZero = FALSE

\* ---- resizeFrame

MaxWidth == 46

MaxHeight == 2

\* floor(log2(n / d)) for n, d > 0
RECURSIVE FloorLog2(_, _)
FloorLog2(n, d) ==
    IF n >= 2 * d THEN FloorLog2(n, 2 * d) + 1
    ELSE IF n < d THEN FloorLog2(2 * n, d) - 1
    ELSE 0

RECURSIVE Pow2(_)
Pow2(e) == IF e = 0 THEN 1 ELSE 2 * Pow2(e - 1)

\* 2^e modulo m
RECURSIVE Pow2Mod(_, _)
Pow2Mod(e, m) == IF e = 0 THEN 1 % m ELSE (2 * Pow2Mod(e - 1, m)) % m

\* Math.floor(x * ratio) with ratio = src / dest, in the IEEE-754 doubles of
\* the code.  The ratio is rounded to 53 significant bits, and so is the
\* product.  The double of the product is under the integer x * src / dest,
\* where that is one, when the ratio was rounded down (the remainder of its
\* significand, rem, is under half the divisor) and the product then lies
\* more than half a unit in the last place under the integer; everywhere else
\* the floor is that of the exact quotient
FloorOfScaled(x, src, dest) ==
    LET exact == (x * src) \div dest
        Lq == FloorLog2(src, dest)
        rem == (src * Pow2Mod(52 - Lq, dest)) % dest
        E0 == FloorLog2(exact, 1)
        E == IF exact = Pow2(E0) THEN E0 - 1 ELSE E0
        s == 1 + Lq - E
        under == x * rem * (IF s >= 0 THEN Pow2(s) ELSE 1)
        halfUlp == dest * (IF s < 0 THEN Pow2(0 - s) ELSE 1)
    IN IF x = 0 \/ (x * src) % dest # 0 THEN exact
       ELSE IF rem = 0 \/ 2 * rem >= dest THEN exact
       ELSE IF under > halfUlp THEN exact - 1
       ELSE exact

Min(a, b) == IF a < b THEN a ELSE b

\* srcIdx / 4 for the destination pixel (x, y)
SrcPixel(x, y, srcWidth, srcHeight, destWidth, destHeight) ==
    LET srcX == FloorOfScaled(x, srcWidth, destWidth)
        srcY == FloorOfScaled(y, srcHeight, destHeight)
        safeSrcX == Min(srcX, srcWidth - 1)
        safeSrcY == Min(srcY, srcHeight - 1)
    IN safeSrcY * srcWidth + safeSrcX

\* the source pixel read for each destination pixel, destIdx / 4 + 1 |-> srcIdx / 4
SrcPixels(srcWidth, srcHeight, destWidth, destHeight) ==
    IF srcWidth = destWidth /\ srcHeight = destHeight THEN <<>>
    ELSE [d \in 1..(destWidth * destHeight) |->
            SrcPixel((d - 1) % destWidth, (d - 1) \div destWidth,
                     srcWidth, srcHeight, destWidth, destHeight)]

\* pixels[srcIdx .. srcIdx + 3], stored in a Uint8Array
ReadPixel(pixels, p) == IF p + 1 \in 1..Len(pixels) THEN pixels[p + 1] ELSE NoPixel

resizeFrame(pixels, srcWidth, srcHeight, destWidth, destHeight) ==
    IF srcWidth = destWidth /\ srcHeight = destHeight THEN pixels
    ELSE LET reads == SrcPixels(srcWidth, srcHeight, destWidth, destHeight)
         IN [d \in 1..(destWidth * destHeight) |-> ReadPixel(pixels, reads[d])]

resizeFrameCall ==
    /\ rPc = "called"
    /\ rPc' = "returned"
    /\ rReads' = SrcPixels(rSrc.width, rSrc.height, rDest.width, rDest.height)
    /\ rResult' = resizeFrame(rPixels, rSrc.width, rSrc.height, rDest.width, rDest.height)
    /\ UNCHANGED <<rSrc, rDest, rPixels, compositeVars, quantizeVars, extractVars,
                   uiVars, serverVars,
                   fetchVars>>

\* a frame of width * height pixels, no two of them alike
Frame(width, height) ==
    [p \in 1..(width * height) |-> <<(p - 1) % 256, (p - 1) \div 256, 0, 255>>]

Sizes == [width : 1..MaxWidth, height : 1..MaxHeight]

IdleResize ==
    /\ rPc = "idle"
    /\ rSrc = [width |-> 0, height |-> 0]
    /\ rDest = [width |-> 0, height |-> 0]
    /\ rPixels = <<>>
    /\ rReads = <<>>
    /\ rResult = <<>>

InitResize ==
    /\ rPc = "called"
    /\ rSrc \in Sizes
    /\ rDest \in Sizes
    /\ rPixels = Frame(rSrc.width, rSrc.height)
    /\ rReads = <<>>
    /\ rResult = <<>>

\* ---- quantizeTo256Colors and rgbaToBitmapImage

\* quantizeTo256Colors: one pixel
quantizePixel(p) ==
    <<Uint8((p[1] \div 4) * 4), Uint8((p[2] \div 4) * 4), Uint8((p[3] \div 4) * 4),
      IF p[4] > 64 THEN 255 ELSE 0>>

quantizeTo256Colors(rgbaData, width, height) ==
    [i \in 1..Len(rgbaData) |-> quantizePixel(rgbaData[i])]

\* rgbaToBitmapImage: the buffer of width * height * 3 bytes, the pixel at
\* rgbIdx as <<r, g, b>>
rgbaToBitmapImage(rgbaData, width, height) ==
    [i \in 1..(width * height) |-> <<rgbaData[i][1], rgbaData[i][2], rgbaData[i][3]>>]

\* the strict handler on one composited frame of a GIF answer: quantized
\* when pushed, turned into a bitmap for its GifFrame
quantizeThenEncode ==
    /\ qPc = "composited"
    /\ qPc' = "encoded"
    /\ qQuantized' = quantizeTo256Colors(qPixels, Len(qPixels), 1)
    /\ qBitmap' = rgbaToBitmapImage(quantizeTo256Colors(qPixels, Len(qPixels), 1),
                                    Len(qPixels), 1)
    /\ UNCHANGED <<qPixels, compositeVars, resizeVars, extractVars, uiVars, serverVars,
                   fetchVars>>

\* composited pixels with alphas on both sides of the threshold
QuantizeSamples ==
    {<<r, g, 128, a>> : r \in ChannelSamples, g \in {0, 255},
                        a \in {0, 63, 64, 65, 128, 255}}

QuantizeFrames ==
    {<<p>> : p \in QuantizeSamples}
        \cup {<<p, q>> : p, q \in {<<255, 0, 128, 64>>, <<1, 255, 128, 65>>, <<127, 0, 128, 0>>}}

IdleQuantize ==
    /\ qPc = "idle"
    /\ qPixels = <<>>
    /\ qQuantized = <<>>
    /\ qBitmap = <<>>

InitQuantize ==
    /\ qPc = "composited"
    /\ qPixels \in QuantizeFrames
    /\ qQuantized = <<>>
    /\ qBitmap = <<>>

-----------------------------------------------------------------------------
(* extractGifFrames: the pixels of a frame, src/unnamed/part_009 and        *)
(* src/app/components/GifGenerator.tsx.  Buffers are kept as their bytes.   *)

\* new Uint8Array(n)
Zeros(n) == [i \in 1..n |-> 0]

\* part_009 with raw[i + 0] = raw[i + 2] and raw[i + 2] = raw[i + 0] written
\* one after the other, without the four constants
RECURSIVE SwapInPlaceNoTemps(_, _)
SwapInPlaceNoTemps(raw, i) ==
    IF i >= Len(raw) THEN raw
    ELSE LET first == [raw EXCEPT ![i + 0 + 1] = raw[i + 2 + 1]]
             second == [first EXCEPT ![i + 2 + 1] = first[i + 0 + 1]]
         IN SwapInPlaceNoTemps(second, i + 4)

\* part_009, "Convert BGRA to RGBA": the loop from i on, in place on raw
\* (i counts from 0 as in the code, sequences from 1)
RECURSIVE SwapInPlace(_, _)
SwapInPlace(raw, i) ==
    IF i >= Len(raw) THEN raw
    ELSE LET b == raw[i + 0 + 1]
             g == raw[i + 1 + 1]
             r == raw[i + 2 + 1]
             a == raw[i + 3 + 1]
         IN SwapInPlace([raw EXCEPT ![i + 0 + 1] = r, ![i + 1 + 1] = g,
                                    ![i + 2 + 1] = b, ![i + 3 + 1] = a], i + 4)

\* GifGenerator.tsx, "Convert BGRA to RGBA": the loop from i on, from
\* bgraData into imageData
RECURSIVE SwapInto(_, _, _)
SwapInto(imageData, bgraData, i) ==
    IF i >= Len(bgraData) THEN imageData
    ELSE SwapInto([imageData EXCEPT ![i + 1] = bgraData[i + 2 + 1],
                                    ![i + 1 + 1] = bgraData[i + 1 + 1],
                                    ![i + 2 + 1] = bgraData[i + 1],
                                    ![i + 3 + 1] = bgraData[i + 3 + 1]],
                  bgraData, i + 4)

\* the pixels extractGifFrames returns for a frame: blit is what the decode
\* method that gets called writes into the buffer handed to it
extractFramePixels(v, reader, blit) ==
    IF reader.rgba THEN blit
    ELSE IF reader.bgra
         THEN IF v = "part_009" THEN SwapInPlace(blit, 0)
              ELSE SwapInto(Zeros(Len(blit)), blit, 0)
         ELSE Zeros(Len(blit))

extractGifFramesCall ==
    /\ ePc = "called"
    /\ ePc' = "returned"
    /\ ePixels' = extractFramePixels(eVariant, eReader, eBlit)
    /\ UNCHANGED <<eVariant, eReader, eBlit, compositeVars, resizeVars, quantizeVars,
                   uiVars, serverVars, fetchVars>>

\* decoded pixels whose four channels differ, and some that are symmetric
BlitPixels == {<<1, 2, 3, 4>>, <<255, 0, 128, 0>>, <<0, 255, 128, 255>>, <<7, 7, 7, 7>>}

\* frames of one and of two pixels
BlitFrames == BlitPixels \cup {p \o q : p, q \in BlitPixels}

Readers == [rgba : BOOLEAN, bgra : BOOLEAN]

IdleExtract ==
    /\ ePc = "idle"
    /\ eVariant = "none"
    /\ eReader = [rgba |-> FALSE, bgra |-> FALSE]
    /\ eBlit = <<>>
    /\ ePixels = <<>>

InitExtract ==
    /\ ePc = "called"
    /\ eVariant \in {"part_009", "GifGenerator"}
    /\ eReader \in Readers
    /\ eBlit \in BlitFrames
    /\ ePixels = <<>>

IdlePixels == IdleComposite /\ IdleResize /\ IdleQuantize /\ IdleExtract

-----------------------------------------------------------------------------
(* The initial states and the specifications *)

\* what the server can answer to the page: the answers of the handlers, and
\* a response that is not ok
ServerAnswers ==
    {OutputOf(<<1>>, FALSE), OutputOf(<<1, 2>>, TRUE),
     SuccessResponse("image/png", "png", FALSE, 0),
     ErrorResponse(400, "Failed to load image", FALSE), CaughtResponse("strict")}

\* response.ok && result.success && result.imageData
ServerSucceeded(result) ==
    result.status = 200 /\ result.success /\ result.imageData # ""

\* saveResponse with the failure alert in the outer catch block, before the
\* html2canvas fallback is tried
saveResponseAlertsBeforeFallback(result, canvasOk) ==
    /\ savePc = "awaiting"
    /\ savePc' = "finished"
    /\ download' =
          IF ServerSucceeded(result)
          THEN Download("nft-avatar.png", FormatOfMime(result.imageData))
          ELSE IF saveSender = "SaveButton" /\ canvasOk
               THEN Download("nft-avatar.png", FormatOfMime(toDataURL("image/png")))
               ELSE NoDownload
    /\ clicks' = IF ServerSucceeded(result) THEN clicks + 1
                 ELSE IF saveSender = "SaveButton" /\ canvasOk THEN clicks + 1
                 ELSE clicks
    /\ alerts' = IF ~ServerSucceeded(result) /\ saveSender = "SaveButton"
                 THEN Append(alerts, FailureAlert)
                 ELSE alerts
    /\ UNCHANGED <<saveSender, sentTraitUrls, saveTraits, traits, imageRefs,
                   previewVars, serverVars, fetchVars, pixelVars>>

\* the response arrives: the image data is saved as a file; SaveButton.tsx
\* falls back to html2canvas when the answer is no success
saveResponse(result, canvasOk) ==
    /\ savePc = "awaiting"
    /\ savePc' = "finished"
    /\ download' =
          IF ServerSucceeded(result)
          THEN Download("nft-avatar.png", FormatOfMime(result.imageData))
          ELSE IF saveSender = "SaveButton" /\ canvasOk
               THEN Download("nft-avatar.png", FormatOfMime(toDataURL("image/png")))
               ELSE NoDownload
    /\ clicks' = IF ServerSucceeded(result) THEN clicks + 1
                 ELSE IF saveSender = "SaveButton" /\ canvasOk THEN clicks + 1
                 ELSE clicks
    /\ alerts' = IF ~ServerSucceeded(result) /\ saveSender = "SaveButton" /\ ~canvasOk
                 THEN Append(alerts, FailureAlert)
                 ELSE alerts
    /\ UNCHANGED <<saveSender, sentTraitUrls, saveTraits, traits, imageRefs,
                   previewVars, serverVars, fetchVars, pixelVars>>

InitUi ==
    /\ traits = initialTraits
    /\ imageRefs = <<>>
    /\ savePc = "idle"
    /\ saveSender = "none"
    /\ sentTraitUrls = <<>>
    /\ saveTraits = initialTraits
    /\ download = NoDownload
    /\ clicks = 0
    /\ alerts = <<>>
    /\ observeLoads = FALSE
    /\ gifSyncKey = 0
    /\ loadRuns = {}
    /\ loadedImages = NoImages
    /\ isProcessing = FALSE
    /\ gifDataRef = {}
    /\ staticImagesRef = {}
    /\ canvasRuns = {}
    /\ canvasRun = 0
    /\ canvasLoaded = {}

IdleServer ==
    /\ variant = "none"
    /\ body = [isArray |-> FALSE, items |-> <<>>]
    /\ pc = "idle"
    /\ urls = <<>>
    /\ k = 0
    /\ maxFrames = 0
    /\ hasGifs = FALSE
    /\ assets = <<>>
    /\ drawn = <<>>
    /\ combinedFrames = <<>>
    /\ frameUses = {}
    /\ response = NoResponse
    /\ loadLog = <<>>
    /\ retried = FALSE
    /\ canvas = Size(0, 0)
    /\ encoder = NoEncoder
    /\ layerPixels = NoLayerPixels

Init == InitUi /\ IdleServer /\ IdleFetch /\ IdlePixels

Next ==
    \/ \E c \in Categories : \E i \in 1..Len(traitOptions[c]) :
            handleTraitSelect(c, traitOptions[c][i])
    \/ \E sender \in Senders : handleSaveNoTraits(sender)
    \/ handleSave
    \/ handleSaveCapture
    \/ handleSaveFallback
    \/ \E result \in ServerAnswers, canvasOk \in BOOLEAN : saveResponse(result, canvasOk)
    \/ saveSettled

Spec == Init /\ [][Next]_vars

ServerInit == InitUi /\ InitServer /\ IdleFetch /\ IdlePixels

ServerNext ==
    \/ Validate
    \/ FirstPass
    \/ SecondPass
    \/ LenientDraw
    \/ LoadAsset
    \/ LenientRespond
    \/ StrictFinish
    \/ Part009Finish
    \/ GifGeneratorFinish

SpecServer == ServerInit /\ [][ServerNext]_vars

\* a page on which no trait is ever selected, and a server that is sent any
\* body
NoTraitsNext ==
    \/ \E sender \in Senders : handleSaveNoTraits(sender)
    \/ saveSettled
    \/ Validate
    \/ FirstPass
    \/ SecondPass
    \/ LenientDraw
    \/ LoadAsset
    \/ LenientRespond
    \/ StrictFinish
    \/ Part009Finish
    \/ GifGeneratorFinish

SpecNoTraits == ServerInit /\ [][NoTraitsNext]_vars

\* the page with the pending image loads of the preview followed, for the
\* selections of two categories
PreviewCategories == {"fur", "eyes"}

PreviewInit ==
    /\ traits = initialTraits
    /\ imageRefs = <<>>
    /\ savePc = "idle"
    /\ saveSender = "none"
    /\ sentTraitUrls = <<>>
    /\ saveTraits = initialTraits
    /\ download = NoDownload
    /\ clicks = 0
    /\ alerts = <<>>
    /\ observeLoads = TRUE
    /\ gifSyncKey = 0
    /\ loadRuns = {}
    /\ loadedImages = NoImages
    /\ isProcessing = FALSE
    /\ gifDataRef = {}
    /\ staticImagesRef = {}
    /\ canvasRuns = {}
    /\ canvasRun = 0
    /\ canvasLoaded = {}
    /\ IdleServer
    /\ IdleFetch
    /\ IdlePixels

PreviewNext ==
    \/ \E c \in PreviewCategories : \E i \in 1..Len(traitOptions[c]) :
            handleTraitSelect(c, traitOptions[c][i])
    \/ \E gen \in 1..MaxChanges, ok \in BOOLEAN : loadSettled(gen, ok)

SpecPreview == PreviewInit /\ [][PreviewNext]_vars

\* SaveButton.tsx on the page: selections and saves
SaveCategories == {"background", "fur", "face", "eyes"}

SaveNext ==
    \/ \E c \in SaveCategories : \E i \in 1..Len(traitOptions[c]) :
            handleTraitSelect(c, traitOptions[c][i])
    \/ handleSaveNoTraits("SaveButton")
    \/ handleSave
    \/ \E result \in ServerAnswers, canvasOk \in BOOLEAN : saveResponse(result, canvasOk)
    \/ saveSettled

\* the fetch and the html2canvas fallback settle, and the finally block runs
SpecSave ==
    /\ Init
    /\ [][SaveNext]_vars
    /\ WF_vars(\E result \in ServerAnswers, canvasOk \in BOOLEAN :
                    saveResponse(result, canvasOk))
    /\ WF_vars(saveSettled)

\* the preview with every category of the page selectable
PreviewAllNext ==
    \/ \E c \in Categories : \E i \in 1..Len(traitOptions[c]) :
            handleTraitSelect(c, traitOptions[c][i])
    \/ \E gen \in 1..MaxChanges, ok \in BOOLEAN : loadSettled(gen, ok)

SpecPreviewAll == PreviewInit /\ [][PreviewAllNext]_vars

\* the page with the canvas-based preview mounted
CanvasPreviewInit == InitUi /\ IdleServer /\ IdleFetch /\ IdlePixels

CanvasPreviewNext ==
    \/ \E c \in PreviewCategories : \E i \in 1..Len(traitOptions[c]) :
            canvasTraitSelect(c, traitOptions[c][i])
    \/ \E gen \in 1..MaxChanges, ok \in BOOLEAN : canvasLoadSettled(gen, ok)

SpecCanvasPreview == CanvasPreviewInit /\ [][CanvasPreviewNext]_vars

FetchInit == InitUi /\ IdleServer /\ InitFetch /\ IdlePixels

FetchNext == FetchAttempt \/ FetchTimer

\* every attempt settles and every timer fires
SpecFetch == FetchInit /\ [][FetchNext]_vars /\ WF_vars(FetchNext)

\* one call of compositeImages
CompositeInit ==
    InitUi /\ IdleServer /\ IdleFetch /\ InitComposite /\ IdleResize /\ IdleQuantize
        /\ IdleExtract

CompositeNext == compositeImagesCall

SpecComposite == CompositeInit /\ [][CompositeNext]_vars

\* one call of resizeFrame
ResizeInit ==
    InitUi /\ IdleServer /\ IdleFetch /\ IdleComposite /\ InitResize /\ IdleQuantize
        /\ IdleExtract

ResizeNext == resizeFrameCall

SpecResize == ResizeInit /\ [][ResizeNext]_vars

\* one output frame of the strict handler, from the composite to the bitmap
QuantizeInit ==
    InitUi /\ IdleServer /\ IdleFetch /\ IdleComposite /\ IdleResize /\ InitQuantize
        /\ IdleExtract

QuantizeNext == quantizeThenEncode

SpecQuantize == QuantizeInit /\ [][QuantizeNext]_vars

\* one call of extractGifFrames
ExtractInit ==
    InitUi /\ IdleServer /\ IdleFetch /\ IdleComposite /\ IdleResize /\ IdleQuantize
        /\ InitExtract

ExtractNext == extractGifFramesCall

SpecExtract == ExtractInit /\ [][ExtractNext]_vars

-----------------------------------------------------------------------------
(* The claims.  Helper definitions first. *)

\* the z-order the specification calls canonical, back to front
CanonicalZOrder ==
    <<"background", "fur", "face", "eyes", "mouth", "head", "mask", "minion">>

NoDuplicates(s) == \A i, j \in 1..Len(s) : s[i] = s[j] => i = j

Reorderings(s) ==
    {[i \in 1..Len(s) |-> s[f[i]]] :
        f \in {g \in [1..Len(s) -> 1..Len(s)] : \A a, b \in 1..Len(s) : g[a] = g[b] => a = b}}

\* out holds the elements of in by non-decreasing key, equal keys in the
\* order they have in `in`
IsStableSortByLayer(out, in) ==
    /\ \A i \in 1..(Len(out) - 1) : getLayerIndex(out[i]) <= getLayerIndex(out[i + 1])
    /\ \A x \in 0..Len(layerOrder) :
          SelectSeq(out, LAMBDA u : getLayerIndex(u) = x)
              = SelectSeq(in, LAMBDA u : getLayerIndex(u) = x)

DistinctLayers(s) ==
    \A i, j \in 1..Len(s) : getLayerIndex(s[i]) = getLayerIndex(s[j]) => i = j

\* the URLs the given pass tried, and the ones it loaded, in the order of
\* the attempts
TriedIn(pass) ==
    LET l == SelectSeq(loadLog, LAMBDA e : e.pass = pass)
    IN [n \in 1..Len(l) |-> l[n].url]

LoadedIn(pass) ==
    LET l == SelectSeq(loadLog, LAMBDA e : e.pass = pass /\ e.ok)
    IN [n \in 1..Len(l) |-> l[n].url]

Answered == pc = "done" /\ response.success

\* the frame count of a layer: a static layer is one frame
LayerFrames(a) == IF a.isGif THEN a.frameCount ELSE 1

SetMax(S) == CHOOSE x \in S : \A y \in S : y <= x

\* C1 (as stated): for every selection the preview stacks the selected
\* categories back to front in the order the export path stacks them, which
\* is the canonical order, and every selected category is in both.
C1_PreviewOrderIsExportOrder ==
    LET exported == SortByLayer(MapSeq(SaveTraitUrls(traits), WithBaseUrl))
    IN /\ PreviewStack = Selected(CanonicalZOrder, traits)
       /\ exported = MapSeq(MapImages(Selected(CanonicalZOrder, traits), traits), WithBaseUrl)
       /\ MapSeq(MapImages(PreviewStack, traits), WithBaseUrl) = exported

\* C2 (as stated): the traitUrls a handleSave sends hold exactly one URL per
\* category with a trait, without duplicates, in canonical z-order; being a
\* function of the selection alone, the list does not depend on the order in
\* which the categories were selected.
C2_SentUrlsCanonical ==
    savePc = "awaiting" =>
        /\ Len(sentTraitUrls) = Cardinality({c \in Categories : saveTraits[c] # Null})
        /\ NoDuplicates(sentTraitUrls)
        /\ sentTraitUrls = MapImages(Selected(CanonicalZOrder, saveTraits), saveTraits)

\* C3 (as stated): every handler goes through the valid URLs stably sorted by
\* layer index, so that any permutation of the same traitUrls is drawn in the
\* same order.
C3_EveryHandlerSorts ==
    (pc # "received" /\ urls # <<>>) =>
        /\ IsStableSortByLayer(urls, ValidUrls(variant, body.items))
        /\ \A p \in Reorderings(body.items) : ValidUrls(variant, p) = urls

\* C3 (amended): the handlers that sort go through the valid URLs stably
\* sorted by layer index (unknown paths last, ties in input order) and draw
\* the loaded ones in that order; a permutation of the same traitUrls is drawn
\* in the same order provided no two of its URLs have the same layer index.
\* The strict two-pass handler does not sort: it goes through the distinct
\* valid URLs in the order of their first occurrence in the request.
C3_SortingHandlersSort ==
    (pc # "received" /\ urls # <<>>) =>
        LET valid == SelectSeq(body.items, Truthy)
        IN /\ variant \in Sorting =>
                /\ IsStableSortByLayer(urls, MapSeq(valid, WithBaseUrl))
                /\ \A p \in Reorderings(body.items) :
                      DistinctLayers(urls) => ValidUrls(variant, p) = urls
                /\ Answered => (TriedIn(1) = urls /\ drawn = LoadedIn(1))
           /\ variant = "strict" =>
                /\ NoDuplicates(urls)
                /\ Range(urls) = {getAbsoluteUrl(u) : u \in Range(valid)}
                /\ \A i, j \in 1..Len(urls) : i < j =>
                      \E a \in 1..Len(valid) :
                          /\ getAbsoluteUrl(valid[a]) = urls[i]
                          /\ \A b \in 1..a : getAbsoluteUrl(valid[b]) # urls[j]

\* C3 witness: a sorting handler has answered a request whose two layers it
\* had to swap, and drew both
C3_Witness ==
    /\ variant \in Sorting
    /\ Answered
    /\ Len(urls) = 2
    /\ urls # MapSeq(SelectSeq(body.items, Truthy), WithBaseUrl)
    /\ drawn = urls

\* C4 (as stated): the number of output frames, and the frameCount of the
\* answer, is max(1, the largest frame count of the composited layers),
\* whatever the fetches of the first and the second pass did.
C4_FrameCountIsMax ==
    (variant = "strict" /\ Answered) =>
        LET most == SetMax({1} \cup {LayerFrames(assets[j]) : j \in 1..Len(assets)})
        IN /\ Len(combinedFrames) = most
           /\ response.frameCount = most

\* C5 (as stated): every source frame index the combine loop uses is
\* i mod frameCount and a valid index of the layer's frames.
C5_FrameIndexValid ==
    \A use \in frameUses :
        /\ ~use.frameNum.isNaN
        /\ use.frameCount > 0
        /\ use.frameNum.val = use.i % use.frameCount
        /\ use.frameNum.val \in 0..(use.frameCount - 1)

\* C6 (as stated): the delay of every output frame is the largest delay of
\* the source frames used for it.
C6_DelayIsMaxOfSources ==
    (Answered /\ combinedFrames # <<>>) =>
        \A n \in 1..Len(combinedFrames) :
            combinedFrames[n].delay =
                SetMax({0} \cup
                    {assets[j].delays[combinedFrames[n].srcs[j].frameNum + 1] :
                        j \in {h \in 1..Len(assets) : ReadsFrame(variant, assets[h])}})

\* C7 (as stated): the answer has format 'gif' exactly when a composited
\* layer is a GIF or more than one frame resulted, and otherwise format 'png'
\* with frameCount 1.
C7_GifIffAnimated ==
    (variant = "strict" /\ Answered) =>
        /\ response.format = "gif" <=>
              \/ \E j \in 1..Len(assets) : assets[j].isGif
              \/ Len(combinedFrames) > 1
        /\ response.format # "gif" =>
              /\ response.format = "png"
              /\ response.hasFrameCount
              /\ response.frameCount = 1

\* C8 (as stated): a success answer is given only when at least one layer
\* was loaded and composited.
C8_SuccessNeedsALayer ==
    Answered =>
        /\ \E n \in 1..Len(loadLog) : loadLog[n].ok
        /\ drawn # <<>>

FailedAttempts == Cardinality({i \in 1..Len(fLog) : fLog[i] # "ok"})

FetchEnded == fPc \in {"returned", "thrown"}

C9_Shape ==
    /\ Len(fLog) <= 3
    /\ \A i \in 1..(Len(fLog) - 1) : fLog[i] # "ok"
    /\ fPc = "returned" <=> (fLog # <<>> /\ fLog[Len(fLog)] = "ok")
    /\ fPc = "thrown" <=> FailedAttempts = 3
    /\ Len(fWaits) = (IF FailedAttempts < 3 THEN FailedAttempts ELSE 2)
    /\ \A n \in 1..Len(fWaits) : fWaits[n] = 300 * n
    /\ FetchEnded => ~ENABLED FetchNext

\* C9: a call makes at most 3 attempts, returns at the first attempt that
\* succeeds and makes none after it, counts a non-OK status as a failed
\* attempt, waits 300*k ms after the k-th failed attempt for k = 1, 2,
\* throws after the 3rd failed attempt without waiting, and always ends.
C9_RetryBounded == []C9_Shape /\ <>FetchEnded

\* C9 witness: a call that failed twice, waited 300 and 600 ms, and returned
\* the third attempt's bytes; the second failure was a non-OK status
C9_Witness ==
    /\ fPc = "returned"
    /\ Len(fLog) = 3
    /\ fLog[2] = "notok"
    /\ fWaits = <<300, 600>>

\* C10: in the handlers that skip a failed layer (route.ts:24 and the load
\* loop of part_009), a layer that fails to load does not end the loop: every
\* URL is tried, in sorted order, and the layers kept are exactly the ones
\* that loaded, in that order; the lenient handler then answers with the
\* image of those layers, and every success answer of part_009 is drawn from
\* them.
C10_FailedLayerSkipped ==
    (variant \in {"lenient", "part009"} /\ pc \in {"finish", "done"} /\ urls # <<>>) =>
        /\ TriedIn(1) = urls
        /\ variant = "lenient" => drawn = LoadedIn(1)
        /\ variant = "part009" => AssetUrls(assets) = LoadedIn(1)
        /\ (variant = "lenient" /\ pc = "done") => response.success
        /\ Answered => drawn = LoadedIn(1)

\* C10 witness: the lenient handler answered after its first layer failed to
\* load, with the second layer drawn
C10_Witness ==
    /\ variant = "lenient"
    /\ Answered
    /\ Len(loadLog) = 2
    /\ ~loadLog[1].ok
    /\ loadLog[2].ok
    /\ drawn = <<urls[2]>>

\* C11 (as stated): in the strict two-pass handler a URL that fails to load
\* in either pass ends the run with an error answer without imageData; a
\* success answer means every distinct requested URL was loaded in both
\* passes, is in the composite, and the frame count was computed from all of
\* those layers.
C11_StrictAllOrNothing ==
    (variant = "strict" /\ pc = "done") =>
        /\ (\E n \in 1..Len(loadLog) : ~loadLog[n].ok) =>
              (~response.success /\ response.imageData = "" /\ response.status >= 400)
        /\ response.success =>
              /\ TriedIn(1) = urls /\ LoadedIn(1) = urls
              /\ TriedIn(2) = urls /\ LoadedIn(2) = urls
              /\ drawn = urls
              /\ maxFrames = SetMax({1} \cup {LayerFrames(assets[j]) : j \in 1..Len(assets)})

\* C12: a handleSave called with no trait selected sends no request and
\* saves no file, and a handler given a traitUrls that is missing, no array,
\* or empty once the null and '' entries are dropped answers 400 without a
\* fetch and without an image.
C12_NoTraitsNoBytes ==
    /\ (savePc # "idle" /\ ~hasTraits(saveTraits)) =>
          (savePc = "noTraits" /\ sentTraitUrls = <<>> /\ download = NoDownload)
    /\ (pc \notin {"idle", "received"}
            /\ (~body.isArray \/ SelectSeq(body.items, Truthy) = <<>>)) =>
          /\ pc = "done"
          /\ response.status = 400
          /\ ~response.success
          /\ response.imageData = ""
          /\ loadLog = <<>>
          /\ drawn = <<>>
          /\ combinedFrames = <<>>

\* C12 witness: a handleSave has returned at its hasTraits check, and a
\* handler has answered a traitUrls of null / '' entries only
C12_Witness ==
    /\ savePc = "noTraits"
    /\ pc = "done"
    /\ body.isArray
    /\ body.items # <<>>
    /\ SelectSeq(body.items, Truthy) = <<>>
    /\ response.status = 400

\* C13 (as stated): the answer of a handler is either the success form
\* {success: true, imageData, format, frameCount}, with the MIME type of
\* imageData that of format ('png' or 'gif') and frameCount the number of
\* frames composited, or the error form {error, details} with a status that
\* is not 2xx.
C13_ResponseShape ==
    pc = "done" =>
        \/ /\ response.success
           /\ response.status = 200
           /\ response.format \in {"png", "gif"}
           /\ FormatOfMime(response.imageData) = response.format
           /\ response.hasFrameCount
           /\ response.frameCount = Len(combinedFrames)
        \/ /\ ~response.success
           /\ response.imageData = ""
           /\ response.error # ""
           /\ response.hasDetails
           /\ response.status >= 300

\* C14 (as stated): a file is saved under the name nft-avatar.<ext> with
\* <ext> the format of the image saved: 'gif' for a GIF, 'png' for a PNG.
C14_FileNameMatchesFormat ==
    download # NoDownload =>
        /\ download.format \in {"png", "gif"}
        /\ download.name = "nft-avatar." \o download.format

\* the load run started for the selection now shown is still pending
CurrentRunPending == \E run \in loadRuns : run.gen = gifSyncKey

\* C15 (as stated): the results of a load run started for an earlier
\* selection are never applied once a later selection has started its own
\* run: loadedImages only ever holds the images of the latest run, and the
\* processing flag is not cleared while the latest run is pending.
C15_StaleResultsDiscarded ==
    /\ loadedImages # NoImages => loadedImages.gen = gifSyncKey
    /\ (hasTraits(traits) /\ CurrentRunPending) => isProcessing

\* every category holds null or one option of its own list other than 'None'
TraitsValid ==
    \A c \in Categories :
        \/ traits[c] = Null
        \/ \E i \in 1..Len(traitOptions[c]) :
              traits[c] = traitOptions[c][i] /\ traits[c].value # "none"

\* a call for category c with option o changes category c only, to null for
\* the 'None' option and to o otherwise
SelectChangesOneCategory ==
    \A c \in Categories : \A i \in 1..Len(traitOptions[c]) :
        handleTraitSelect(c, traitOptions[c][i]) =>
            /\ \A d \in Categories \ {c} : traits'[d] = traits[d]
            /\ traitOptions[c][i].value = "none" => traits'[c] = Null
            /\ traitOptions[c][i].value # "none" => traits'[c] = traitOptions[c][i]

\* C16: after any sequence of handleTraitSelect calls from the all-null
\* selection every category holds null or exactly one trait of its own option
\* list whose value is not 'none'; a call changes the named category only, and
\* the 'None' option sets it to null.
C16_SelectionAlwaysValid == []TraitsValid /\ [][SelectChangesOneCategory]_vars

\* C16 witness: two categories hold a trait of their lists, the others null
C16_Witness ==
    /\ traits["fur"] = traitOptions["fur"][2]
    /\ traits["mask"] = traitOptions["mask"][3]
    /\ \A c \in Categories \ {"fur", "mask"} : traits[c] = Null

\* whether the load of u runs to its end once its bytes are fetched
Decodes(v, u) == LoadSucceeds(v, u, [i \in 1..Retries |-> "ok"])

\* no load failed because its fetch failed
AllFetched == \A n \in 1..Len(loadLog) : loadLog[n].ok \/ ~Decodes(variant, loadLog[n].url)

\* status, format, frame count and frame delays of the strict handler's
\* answer as a function of the URLs and the bytes behind them
AnswerOfBytes(us) ==
    LET gifs == {j \in 1..Len(us) : IsGif("strict", us[j])}
        stored(j) == Bytes(us[j]).delays
        n == SetMax({1} \cup {Len(stored(j)) : j \in gifs})
        delayOf(j, i) == IF j \in gifs
                         THEN DecodeDelay("strict", stored(j)[(i % Len(stored(j))) + 1])
                         ELSE 100
    IN IF \E j \in gifs : Bytes(us[j]).kind # "gif"
       THEN [status |-> 400, format |-> "", frameCount |-> 0, delays |-> <<>>]
       ELSE IF \E j \in gifs : Len(stored(j)) = 0
       THEN [status |-> 500, format |-> "", frameCount |-> 0, delays |-> <<>>]
       ELSE [status |-> 200,
             format |-> IF gifs # {} \/ n > 1 THEN "gif" ELSE "png",
             frameCount |-> n,
             delays |-> [i \in 1..n |->
                           SetMax({100} \cup {delayOf(j, i - 1) : j \in 1..Len(us)})]]

\* C17: when no fetch of a request to the strict handler fails for good, the
\* status, format, frameCount and per-frame delays of the answer are a
\* function of the traitUrls and of the bytes behind them, so two such runs
\* on the same traitUrls and bytes agree whichever attempts failed on the way.
C17_AnswerDependsOnBytesOnly ==
    (variant = "strict" /\ pc = "done" /\ urls # <<>> /\ AllFetched) =>
        [status |-> response.status, format |-> response.format,
         frameCount |-> response.frameCount,
         delays |-> [n \in 1..Len(combinedFrames) |-> combinedFrames[n].delay]]
            = AnswerOfBytes(urls)

\* C17 witness: the strict handler answered with a GIF of two layers after a
\* fetch that succeeded only on a later attempt
C17_Witness ==
    /\ variant = "strict"
    /\ Answered
    /\ AllFetched
    /\ retried
    /\ Len(urls) = 2
    /\ response.format = "gif"

\* C18: when compositeImages has returned, every pixel whose overlay alpha is
\* 0 is the base pixel in all four channels, every pixel whose base alpha is
\* 0 and whose overlay alpha is not is the overlay pixel, and no division of
\* the call had the divisor 0.
C18_TransparentPixelsPassThrough ==
    cPc = "returned" =>
        /\ \A i \in 1..Len(cBase) :
              /\ cOverlay[i][4] = 0 => cResult[i] = cBase[i]
              /\ (cBase[i][4] = 0 /\ cOverlay[i][4] # 0) => cResult[i] = cOverlay[i]
        /\ ~cDivByZero

\* a call that met both cases, on a base pixel that is not all 0
C18_Witness ==
    /\ cPc = "returned"
    /\ \E i, j \in 1..Len(cBase) :
          /\ cOverlay[i][4] = 0 /\ cBase[i] # NoPixel /\ cResult[i] = cBase[i]
          /\ cBase[j][4] = 0 /\ cOverlay[j][4] # 0 /\ cResult[j] = cOverlay[j]

\* C19: when compositeImages has returned, every channel of every pixel is
\* an integer of 0..255; the alpha is 255 * (overlayA + baseA * (1 -
\* overlayA)) rounded to the nearest integer, and is not under the alpha of
\* either input; every colour channel lies between the two input values of
\* that channel; and a pixel whose overlay alpha is 255 is the overlay pixel.
C19_BlendWithinBounds ==
    cPc = "returned" =>
        \A i \in 1..Len(cBase) :
            LET b == cBase[i]
                o == cOverlay[i]
                r == cResult[i]
                alpha255 == o[4] * 255 + b[4] * (255 - o[4])
            IN /\ \A c \in 1..4 : r[c] \in 0..255
               /\ 2 * (255 * r[4] - alpha255) < 255
               /\ 2 * (alpha255 - 255 * r[4]) < 255
               /\ r[4] >= b[4] /\ r[4] >= o[4]
               /\ \A c \in 1..3 : /\ r[c] >= Min(b[c], o[c])
                                  /\ r[c] <= Max(b[c], o[c])
               /\ o[4] = 255 => r = o

\* a call that blended two translucent pixels into a third colour, and put
\* an opaque overlay pixel over a base pixel that was not transparent
C19_Witness ==
    /\ cPc = "returned"
    /\ \E i, j \in 1..Len(cBase) :
          /\ cBase[i][4] \in 1..254 /\ cOverlay[i][4] \in 1..254
          /\ cResult[i][1] \notin {cBase[i][1], cOverlay[i][1]}
          /\ cResult[i][4] > Max(cBase[i][4], cOverlay[i][4])
          /\ cOverlay[j][4] = 255 /\ cBase[j][4] # 0 /\ cBase[j] # cOverlay[j]
          /\ cResult[j] = cOverlay[j]

\* C20: when resizeFrame has returned, the result has destWidth * destHeight
\* pixels of 4 bytes; the destination pixel (x, y) is the source pixel
\* (min(floor(x * srcWidth / destWidth), srcWidth - 1),
\*  min(floor(y * srcHeight / destHeight), srcHeight - 1)); every source
\* pixel read lies inside the source buffer; and with equal dimensions the
\* result has the pixel values of the input.
C20_ResizeIsNearestNeighbour ==
    rPc = "returned" =>
        LET sw == rSrc.width
            sh == rSrc.height
            dw == rDest.width
            dh == rDest.height
        IN /\ Len(rResult) = dw * dh
           /\ \A d \in 1..(dw * dh) :
                 LET x == (d - 1) % dw
                     y == (d - 1) \div dw
                     sx == Min((x * sw) \div dw, sw - 1)
                     sy == Min((y * sh) \div dh, sh - 1)
                 IN rResult[d] = rPixels[sy * sw + sx + 1]
           /\ \A n \in 1..Len(rReads) : rReads[n] \in 0..(sw * sh - 1)
           /\ (sw = dw /\ sh = dh) => rResult = rPixels

\* C21: every frame of every decoded GIF layer has, in milliseconds, 10
\* times its stored delay when the stored delay is above 0, and at least 10
\* ms when the stored delay is 0.
C21_DecodedDelayInMs ==
    \A j \in 1..Len(assets) :
        assets[j].isGif =>
            \A f \in 1..assets[j].frameCount :
                LET stored == Bytes(assets[j].url).delays[f]
                    delayMs == assets[j].delays[f]
                IN /\ stored > 0 => delayMs = 10 * stored
                   /\ stored = 0 => delayMs >= 10

\* C22: every frame the strict handler gives to the GIF encoder carries, in
\* centiseconds, the delay of the output frame in ms divided by 10 and
\* rounded to the nearest integer, at least 1; the loop count passed is 0.
C22_EncoderDelayInCentisecs ==
    (variant = "strict" /\ encoder.made) =>
        /\ encoder.loops = 0
        /\ Len(encoder.frames) = Len(combinedFrames)
        /\ \A n \in 1..Len(encoder.frames) :
              LET cs == encoder.frames[n].delay
                  ms == combinedFrames[n].delay
              IN /\ encoder.frames[n].unit = "cs"
                 /\ cs >= 1
                 /\ 2 * (10 * cs - ms) <= 10
                 /\ 2 * (ms - 10 * cs) <= 10

\* a GIF of several frames whose delays differ
C22_Witness ==
    /\ variant = "strict"
    /\ encoder.made
    /\ \E n, m \in 1..Len(encoder.frames) :
          /\ encoder.frames[n].delay = 10
          /\ encoder.frames[m].delay = 20
          /\ combinedFrames[m].delay = 200

\* the first GIF among the layers a handler loaded, in layer order
FirstGif == assets[CHOOSE j \in 1..Len(assets) :
                      /\ assets[j].isGif
                      /\ \A i \in 1..(j - 1) : ~assets[i].isGif]

\* C23: when a handler that composites on a canvas of its own size has
\* answered with an image, the canvas has the dimensions of the first GIF
\* layer in layer order when some layer is a GIF, and the handler's fixed
\* default otherwise, whatever the later layers are.
C23_CanvasIsFirstGif ==
    (Answered /\ variant # "lenient") =>
        IF \E j \in 1..Len(assets) : assets[j].isGif
        THEN canvas = ImageSize(FirstGif.url)
        ELSE canvas = IF variant = "strict" THEN Size(500, 500) ELSE Size(1000, 1000)

\* C24: every frame given to the GIF encoder has the width and height of
\* the canvas, which are the dimensions the encoder was created with, for
\* every mix of layer dimensions.
C24_EncoderFramesHaveCanvasSize ==
    encoder.made =>
        /\ Size(encoder.width, encoder.height) = canvas
        /\ \A n \in 1..Len(encoder.frames) :
              Size(encoder.frames[n].width, encoder.frames[n].height) = canvas

\* C25: when a composited frame of a GIF answer has been turned into the
\* bitmap given to the encoder, quantizeTo256Colors has set the alpha of
\* every pixel to 255 when it was above 64 and to 0 otherwise, and the bitmap
\* still holds that alpha for the pixel: transparent below the threshold,
\* opaque otherwise.
C25_TransparencyReachesEncoder ==
    qPc = "encoded" =>
        \A i \in 1..Len(qPixels) :
            LET binary == IF qPixels[i][4] > 64 THEN 255 ELSE 0
            IN /\ qQuantized[i][4] = binary
               /\ i \in 1..Len(qBitmap)
               /\ Len(qBitmap[i]) = 4
               /\ qBitmap[i][4] = binary

\* C26: when a handler has run its combine loop, the pixel data of every
\* frame of every layer is what decoding produced, and every use of a layer
\* frame by an output frame read that same data, so a frame used again when
\* a shorter animation wraps around contributes the same pixels.
C26_LayersNeverMutated ==
    pc = "done" =>
        /\ \A j \in 1..Len(layerPixels.after) :
              \A f \in 1..Len(layerPixels.after[j]) :
                  layerPixels.after[j][f] = DecodedPixels(j, f - 1)
        /\ \A use \in layerPixels.uses :
              use.pixels = DecodedPixels(use.layer, use.frameNum)

\* C27: in the canvas-based preview, once no loadImages() call is awaiting an
\* image any more, the keys of gifDataRef and staticImagesRef together are
\* exactly the categories that the run for the latest selection loaded
C27_RefsHoldLatestSelection ==
    canvasRuns = {} => gifDataRef \cup staticImagesRef = canvasLoaded

\* C28: for a non-empty selection, once every image load that was started
\* has completed, with success or with an error, the processing flag is
\* false: onProcessingStateChange(false) followed the last
\* onProcessingStateChange(true)
C28_ProcessingEnds ==
    (observeLoads /\ hasTraits(traits) /\ loadRuns = {}) => ~isProcessing

\* a handleSave that is running is not joined by a second one: the traits it
\* closed over and the component that runs it stay as they are
OneSaveAtATime ==
    (savePc # "idle" /\ savePc' # "idle") =>
        (saveTraits' = saveTraits /\ saveSender' = saveSender)

\* C29: a running handleSave of SaveButton clicks at most one download link,
\* shows the failure alert only when neither the server nor the fallback
\* produced a download, is not joined by a second handleSave while
\* isProcessing is true, and always comes to set isProcessing back to false
C29_SaveTerminates ==
    /\ [](clicks <= 1 /\ (FailureAlert \in Range(alerts) => clicks = 0))
    /\ [][OneSaveAtATime]_vars
    /\ ((savePc # "idle") ~> (savePc = "idle"))

\* a handleSave of SaveButton whose server request and fallback both failed
C29_Witness ==
    /\ savePc = "finished"
    /\ saveSender = "SaveButton"
    /\ alerts = <<FailureAlert>>
    /\ clicks = 0
    /\ download = NoDownload

\* C30: extractGifFrames returns what an RGBA decode wrote as it is; when the
\* reader has only a BGRA decode, every returned pixel is bytes 2, 1, 0, 3 of
\* the decoded pixel: channels 0 and 2 swapped once, 1 and 3 kept
C30_FramesAreRgba ==
    ePc = "returned" =>
        /\ Len(ePixels) = Len(eBlit)
        /\ eReader.rgba => ePixels = eBlit
        /\ (~eReader.rgba /\ eReader.bgra) =>
                \A px \in 0..(Len(eBlit) \div 4 - 1) :
                    /\ ePixels[4 * px + 1] = eBlit[4 * px + 3]
                    /\ ePixels[4 * px + 2] = eBlit[4 * px + 2]
                    /\ ePixels[4 * px + 3] = eBlit[4 * px + 1]
                    /\ ePixels[4 * px + 4] = eBlit[4 * px + 4]

\* a frame of two pixels decoded as BGRA by part_009 and returned swapped
C30_Witness ==
    /\ ePc = "returned"
    /\ eVariant = "part_009"
    /\ ~eReader.rgba /\ eReader.bgra
    /\ eBlit = <<1, 2, 3, 4, 255, 0, 128, 0>>
    /\ ePixels = <<3, 2, 1, 4, 128, 0, 255, 0>>

====
